---- MODULE Spec2Model ----
(***************************************************************************)
(* A model of the tile acquisition pipeline of ol3:                        *)
(*   - OGCMapTile    (src/src/ol/source/OGCMapTile.js): the two-stage      *)
(*     metadata fetch that resolves a tile matrix set into a tile grid and *)
(*     a tile URL function;                                                *)
(*   - GeoTIFFSource (src/src/ol/source/GeoTIFF.js): the compositor of one *)
(*     to three GeoTIFF sources;                                           *)
(*   - TileTexture   (src/unnamed/part_001): the texture of one tile.      *)
(* Each object is one record-valued variable whose fields carry the names  *)
(* of the fields of the class.  Optional values (undefined / null in the   *)
(* source) are sequences of length 0 or 1: None, Some(v).  Numbers that    *)
(* are not integers in the source are exact rationals [n, d].              *)
(***************************************************************************)
EXTENDS Integers, Sequences, FiniteSets, TLC

VARIABLES
  component,   \* what this behaviour constructs: "ogc" (an OGCMapTile whose
               \* server answers anything), "url" (an OGCMapTile whose server
               \* answers 200 with well-formed metadata), "tiff" (a
               \* GeoTIFFSource over any GeoTIFFs), "load" and "scale" (a
               \* GeoTIFFSource over GeoTIFFs of one structure), "use" (a
               \* GeoTIFFSource over any GeoTIFFs, and its loader),
               \* "concurrent" (a GeoTIFFSource loading several tiles) or
               \* "texture" (a TileTexture and its tile)
  ogc,         \* the OGCMapTile instance
  xhr,         \* the XMLHttpRequest objects it created, in order of creation
  console,     \* what console.error was called with, in order
  uncaught,    \* exceptions thrown out of an event handler, in order
  urlCall,     \* the last call of the installed tile URL function
  tiff,        \* the GeoTIFFSource instance
  requests,    \* the per-source promises of getImagesForSource
  joined,      \* the settlement of Promise.all(requests) of the constructor
  tileLoad,    \* the last loadTile_ call: its reads and its result
  inFlight,    \* the loadTile_ calls of a source that loads several tiles
  tile,        \* the tile a TileTexture was constructed for
  texture,     \* the TileTexture instance
  gl           \* the WebGL context: the uploads made, the objects created

vars == <<component, ogc, xhr, console, uncaught, urlCall,
          tiff, requests, joined, tileLoad, inFlight, tile, texture, gl>>

ogcVars == <<ogc, xhr, console, uncaught, urlCall>>
tiffVars == <<tiff, requests, joined, tileLoad, inFlight>>
texVars == <<tile, texture, gl>>

----------------------------------------------------------------------------
(* Generic helpers *)

None == <<>>
Some(v) == <<v>>
IsSome(o) == Len(o) = 1
Get(o) == o[1]

Range(s) == {s[i] : i \in 1..Len(s)}

\* All sequences over S of length 0..n
SeqsUpTo(S, n) == UNION {[1..k -> S] : k \in 0..n}

Abs(x) == IF x < 0 THEN -x ELSE x

RECURSIVE GCD(_, _)
GCD(a, b) == IF b = 0 THEN Abs(a) ELSE GCD(b, a % b)

\* Exact rationals: [n |-> numerator, d |-> denominator > 0], reduced
Rat(n, d) ==
  LET g == GCD(n, d)
      s == IF d < 0 THEN -1 ELSE 1
  IN  [n |-> s * (n \div g), d |-> s * (d \div g)]

RatMul(a, b) ==
  LET g1 == GCD(a.n, b.d)
      g2 == GCD(b.n, a.d)
  IN  Rat((a.n \div g1) * (b.n \div g2), (a.d \div g2) * (b.d \div g1))

RatDiv(a, b) == RatMul(a, Rat(b.d, b.n))

RatLess(a, b) == a.n * b.d < b.n * a.d

\* JavaScript values that are substituted into strings
Str(s) == [t |-> "string", s |-> s, n |-> 0]
Num(n) == [t |-> "number", s |-> "", n |-> n]
\* String(v)
String(v) == IF v.t = "number" THEN ToString(v.n) ELSE v.s

----------------------------------------------------------------------------
(* Bounds of the model *)

\* longest tileMatrix array of a tile matrix set definition
MaxLevels == 2

\* longest options.sources given to the GeoTIFFSource constructor
MaxSources == 4

\* largest samples-per-pixel of a GeoTIFF image
MaxSamples == 5

----------------------------------------------------------------------------
(* OGCMapTile: the environment (projection registry, server responses) *)

\* proj.get(code): the registered projections, each with its axis
\* orientation (one letter per axis) and its meters per unit; an unknown
\* code gives null.
ProjectionRegistry ==
  [code \in {"EPSG:3857", "EPSG:4326"} |->
     IF code = "EPSG:3857"
     THEN [code |-> code, axisOrientation |-> <<"e", "n", "u">>,
           metersPerUnit |-> Rat(1, 1)]
     ELSE [code |-> code, axisOrientation |-> <<"n", "e", "u">>,
           metersPerUnit |-> Rat(111320, 1)]]

getProjection(code) ==
  IF IsSome(code) /\ Get(code) \in DOMAIN ProjectionRegistry
  THEN Some(ProjectionRegistry[Get(code)])
  ELSE None

\* Characters that are not matched by \w and the two braces; every other
\* token of a template stands for a maximal run of \w characters.
Punctuation == {"{", "}", "/", "?", "=", "-"}

\* href templates, as token sequences
TemplateCanonical ==
  <<"{", "tileMatrixSetId", "}", "/", "{", "tileMatrix", "}", "/",
    "{", "tileCol", "}", "/", "{", "tileRow", "}">>
TemplateStyled ==
  <<"{", "styleId", "}", "/", "{", "tileMatrix", "}", "/",
    "{", "tileRow", "}", "/", "{", "tileCol", "}", "?", "f", "=", "{", "f", "}">>
TemplateOddBraces ==
  <<"{", "}", "/", "{", "tileCol", "-", "}", "/", "{", "tileRow", "}", "}">>

Templates == {TemplateCanonical, TemplateStyled, TemplateOddBraces}

MatrixSetIds == {"WebMercatorQuad", "WorldCRS84Quad"}

\* options.context
Contexts ==
  { None,
    Some([styleId |-> Str("polygon")]),
    Some([styleId |-> Str("line"), tileCol |-> Str("c")]) }

\* options.projection
ProjectionOptions == {None, Some("EPSG:3857"), Some("EPSG:4326")}

\* The link lists of a tileset description
LinkLists ==
  { <<>>,
    <<[rel |-> "self", href |-> Some(<<"tiles">>)]>>,
    <<[rel |-> "item", href |-> Some(TemplateCanonical)]>>,
    <<[rel |-> "self", href |-> Some(<<"tiles">>)],
      [rel |-> "item", href |-> Some(TemplateStyled)],
      [rel |-> "item", href |-> Some(TemplateCanonical)]>>,
    <<[rel |-> "item", href |-> Some(TemplateOddBraces)]>>,
    <<[rel |-> "item", href |-> Some(<<>>)]>>,
    <<[rel |-> "item", href |-> None]>> }

MatrixSetLinkLists ==
  { <<>>,
    <<[tileMatrixSet |-> "WebMercatorQuad",
       tileMatrixSetURI |-> Some("tms/WebMercatorQuad")]>>,
    <<[tileMatrixSet |-> "WorldCRS84Quad",
       tileMatrixSetURI |-> Some("tms/WorldCRS84Quad")],
      [tileMatrixSet |-> "WebMercatorQuad",
       tileMatrixSetURI |-> Some("tms/WebMercatorQuad")]>>,
    <<[tileMatrixSet |-> "WebMercatorQuad", tileMatrixSetURI |-> None]>> }

\* JSON values a tiles info request can parse to: null, or an object in
\* which each of links and tileMatrixSetLinks is present or not.
TilesInfoValues ==
  { [null |-> TRUE] }
  \cup { [links |-> l, tileMatrixSetLinks |-> m] :
           l \in LinkLists, m \in MatrixSetLinkLists }
  \cup { [links |-> l] : l \in {<<[rel |-> "item", href |-> Some(TemplateCanonical)]>>} }
  \cup { [tileMatrixSetLinks |-> m] :
           m \in {<<[tileMatrixSet |-> "WebMercatorQuad",
                     tileMatrixSetURI |-> Some("tms/WebMercatorQuad")]>>} }
  \cup { [name |-> "empty"] }

\* The tile matrices a definition is made of
MatrixPool ==
  { [identifier |-> "0", scaleDenominator |-> 100000,
     topLeftCorner |-> <<-180, 90>>, matrixWidth |-> 1, matrixHeight |-> 1,
     tileWidth |-> 256, tileHeight |-> 256],
    [identifier |-> "4", scaleDenominator |-> 50000,
     topLeftCorner |-> <<90, -180>>, matrixWidth |-> 4, matrixHeight |-> 3,
     tileWidth |-> 256, tileHeight |-> 256],
    [identifier |-> "7", scaleDenominator |-> 25000,
     topLeftCorner |-> <<-180, 90>>, matrixWidth |-> 8, matrixHeight |-> 6,
     tileWidth |-> 512, tileHeight |-> 256] }

TileMatrixArrays == SeqsUpTo(MatrixPool, MaxLevels)

SupportedCRSs == {Some("EPSG:3857"), Some("EPSG:4326"), Some("urn:unknown"), None}

\* JSON values a tile matrix set request can parse to
TileMatrixSetValues ==
  { [null |-> TRUE] }
  \cup { [supportedCRS |-> c, tileMatrix |-> t] :
           c \in SupportedCRSs, t \in TileMatrixArrays }
  \cup { [supportedCRS |-> c] : c \in {Some("EPSG:3857"), Some("urn:unknown")} }

\* client.responseText: text that JSON.parse rejects, or the text of a value
NotJSON == [json |-> FALSE]
TextOf(value) == [json |-> TRUE, value |-> value]

\* client.status of a load event; 0 is what file:// urls give
Statuses == {0, 199, 200, 299, 300, 404}

\* The load events of a request: every status with a body that is not JSON,
\* status 200 with every body, and the other statuses with a few bodies.
LoadEvents(values, probes) ==
  { [type |-> "load", status |-> st, responseText |-> NotJSON] : st \in Statuses }
  \cup { [type |-> "load", status |-> 200, responseText |-> TextOf(v)] : v \in values }
  \cup { [type |-> "load", status |-> st, responseText |-> TextOf(v)] :
           st \in Statuses \ {200}, v \in probes }

ErrorEvent == [type |-> "error"]

GoodTilesInfo ==
  [links |-> <<[rel |-> "item", href |-> Some(TemplateCanonical)]>>,
   tileMatrixSetLinks |->
     <<[tileMatrixSet |-> "WebMercatorQuad",
        tileMatrixSetURI |-> Some("tms/WebMercatorQuad")]>>]

GoodTileMatrixSet ==
  [supportedCRS |-> Some("EPSG:3857"),
   tileMatrix |-> <<CHOOSE m \in MatrixPool : m.identifier = "0">>]

\* What a server that conforms to OGC API - Tiles answers
ConformingTilesInfoEvents ==
  { [type |-> "load", status |-> 200, responseText |-> TextOf(v)] :
      v \in { [links |-> l, tileMatrixSetLinks |-> m] :
                l \in {x \in LinkLists :
                         \E i \in 1..Len(x) :
                            x[i].rel = "item" /\ x[i].href \notin {None, Some(<<>>)}},
                m \in {x \in MatrixSetLinkLists : Len(x) = 2} } }

ConformingTileMatrixSetEvents ==
  { [type |-> "load", status |-> 200, responseText |-> TextOf(v)] :
      v \in { [supportedCRS |-> Some("EPSG:3857"), tileMatrix |-> t] :
                t \in TileMatrixArrays } }

TilesInfoEvents ==
  IF component = "url" THEN ConformingTilesInfoEvents
  ELSE LoadEvents(TilesInfoValues, {GoodTilesInfo, [name |-> "empty"]})

TileMatrixSetEvents ==
  IF component = "url" THEN ConformingTileMatrixSetEvents
  ELSE LoadEvents(TileMatrixSetValues,
                  {GoodTileMatrixSet, [supportedCRS |-> Some("EPSG:3857")]})

----------------------------------------------------------------------------
(* OGCMapTile: the class.  A handler is an operator from the world before  *)
(* it runs, w = [ogc, xhr, console, uncaught], to the world after it.      *)

Error(parts) == [name |-> "Error", message |-> parts]
SyntaxError == [name |-> "SyntaxError", message |-> <<"Unexpected token">>]
TypeError(where) == [name |-> "TypeError", message |-> <<where>>]

\* JSON.parse(text): the value, or the SyntaxError it throws
JSONParse(text) ==
  IF text.json THEN [ok |-> TRUE, value |-> text.value]
  ELSE [ok |-> FALSE, error |-> SyntaxError]

\* Reading property p of value v throws when v is null; reading .length of
\* (or indexing) a property the object lacks throws as well.
IsNull(v) == "null" \in DOMAIN v
Has(v, p) == ~IsNull(v) /\ p \in DOMAIN v

\* new XMLHttpRequest(); addEventListener('load', ..); addEventListener(
\* 'error', ..); open('GET', url); setRequestHeader(..); send()
NewRequest(url, onload, onerror) ==
  [url |-> url, accept |-> "application/json",
   load |-> onload, error |-> onerror, event |-> None]

Throw(w, exception) == [w EXCEPT !.uncaught = Append(@, exception)]

\* handleError that fetches the tiles info again
handleError_Retry(w, error) ==
  [w EXCEPT !.console = Append(@, error), !.ogc.state = "error",
            !.xhr = Append(@, NewRequest("tiles", "onTilesInfoLoad",
                                         "onTilesInfoError"))]

\* handleError(error)
handleError(w, error) ==
  [w EXCEPT !.console = Append(@, error), !.ogc.state = "error"]

\* The index of the first element of s that satisfies Test, or 0
FirstIndex(s, Test(_)) ==
  IF \E i \in 1..Len(s) : Test(s[i])
  THEN CHOOSE i \in 1..Len(s) : Test(s[i]) /\ \A j \in 1..(i - 1) : ~Test(s[j])
  ELSE 0

\* !x for a string-valued x that may be undefined: undefined and the empty
\* string are falsy
Falsy(o, empty) == ~IsSome(o) \/ Get(o) = empty

\* ResolveMatrixSetLink without the return that follows handleError: the
\* request is sent although the link was not found
ResolveMatrixSetLink_NoReturn(w, info) ==
  IF ~Has(info, "tileMatrixSetLinks")
  THEN Throw(w, TypeError("tileMatrixSetLinks.length"))
  ELSE
    LET tileMatrixSetLinks == info.tileMatrixSetLinks
        IsCandidate(c) == c.tileMatrixSet = w.ogc.tileMatrixSet
        i == FirstIndex(tileMatrixSetLinks, IsCandidate)
        tileMatrixSetURI ==
          IF i = 0 THEN None ELSE tileMatrixSetLinks[i].tileMatrixSetURI
        after ==
          IF Falsy(tileMatrixSetURI, "")
          THEN handleError(w, Error(<<"could not find tileMatrixSet: ",
                                      w.ogc.tileMatrixSet>>))
          ELSE w
    IN  [after EXCEPT !.xhr = Append(@,
           NewRequest(IF IsSome(tileMatrixSetURI) THEN Get(tileMatrixSetURI)
                      ELSE "undefined",
                      "onTilesTileMatrixSetLoad", "onTilesTileMatrixSetError"))]

\* the part of handleTilesInfoResponse after the item link is found
ResolveMatrixSetLink(w, info) ==
  IF ~Has(info, "tileMatrixSetLinks")
  THEN Throw(w, TypeError("tileMatrixSetLinks.length"))
  ELSE
    LET tileMatrixSetLinks == info.tileMatrixSetLinks
        IsCandidate(c) == c.tileMatrixSet = w.ogc.tileMatrixSet
        i == FirstIndex(tileMatrixSetLinks, IsCandidate)
        tileMatrixSetURI ==
          IF i = 0 THEN None ELSE tileMatrixSetLinks[i].tileMatrixSetURI
    IN  IF Falsy(tileMatrixSetURI, "")
        THEN handleError(w, Error(<<"could not find tileMatrixSet: ",
                                    w.ogc.tileMatrixSet>>))
        ELSE [w EXCEPT !.xhr = Append(@,
                NewRequest(Get(tileMatrixSetURI), "onTilesTileMatrixSetLoad",
                           "onTilesTileMatrixSetError"))]

\* handleTilesInfoResponse(info)
handleTilesInfoResponse(w, info) ==
  IF ~Has(info, "links")
  THEN Throw(w, TypeError("info.links.length"))
  ELSE
    LET IsItem(link) == link.rel = "item"
        i == FirstIndex(info.links, IsItem)
        tileUrlTemplate == IF i = 0 THEN None ELSE info.links[i].href
    IN  IF Falsy(tileUrlTemplate, <<>>)
        THEN handleError(w, Error(<<"could not find item link">>))
        ELSE ResolveMatrixSetLink(
               [w EXCEPT !.ogc.tileUrlTemplate = tileUrlTemplate], info)

\* client.status is 0 for file:// urls
StatusOK(status) == status = 0 \/ (status >= 200 /\ status < 300)

\* onTilesInfoLoad(event)
onTilesInfoLoad(w, client) ==
  IF StatusOK(client.status)
  THEN LET parsed == JSONParse(client.responseText)
       IN  IF ~parsed.ok
           THEN handleError(w, parsed.error)
           ELSE handleTilesInfoResponse(w, parsed.value)
  ELSE handleError(w, Error(<<"unexpected status for tiles info: ",
                              ToString(client.status)>>))

\* onTilesInfoError(event)
onTilesInfoError(w) ==
  handleError(w, Error(<<"client error loading tiles info">>))

\* projection.getAxisOrientation().substr(0, 2) !== 'en'
Backwards(projection) == SubSeq(projection.axisOrientation, 1, 2) # <<"e", "n">>

\* Origin with the two branches exchanged
Origin_Inverted(matrix, backwards) ==
  LET origin == matrix.topLeftCorner
  IN  IF backwards THEN origin ELSE <<origin[2], origin[1]>>

\* origins[i]
Origin(matrix, backwards) ==
  LET origin == matrix.topLeftCorner
  IN  IF backwards THEN <<origin[2], origin[1]>> ELSE origin

\* Resolution that divides the meters per unit by the pixel size at the
\* scale, instead of the reverse
Resolution_Reciprocal(matrix, metersPerUnit) ==
  RatDiv(metersPerUnit, RatMul(Rat(matrix.scaleDenominator, 1), Rat(28, 100000)))

\* resolutions[i] = (matrix.scaleDenominator * 0.00028) / metersPerUnit
Resolution(matrix, metersPerUnit) ==
  RatDiv(RatMul(Rat(matrix.scaleDenominator, 1), Rat(28, 100000)), metersPerUnit)

\* new TileGrid(options): the grid keeps the per-level arrays it is given
TileGrid(options) == options

\* A mutant of BuildTileGrid: READY is published and nothing is installed
BuildTileGrid_StateOnly(w, tileMatrixSet, projection) ==
  [w EXCEPT !.ogc.state = "ready"]

\* the part of handleTileMatrixSetResponse after the projection is known
BuildTileGrid(w, tileMatrixSet, projection) ==
  IF ~Has(tileMatrixSet, "tileMatrix")
  THEN Throw(w, TypeError("matrices.length"))
  ELSE
    LET backwards == Backwards(projection)
        metersPerUnit == projection.metersPerUnit
        matrices == tileMatrixSet.tileMatrix
        length == Len(matrices)
        tileGrid == TileGrid(
          [origins |-> [i \in 1..length |-> Origin(matrices[i], backwards)],
           resolutions |->
             [i \in 1..length |-> Resolution(matrices[i], metersPerUnit)],
           sizes |-> [i \in 1..length |->
                        <<matrices[i].matrixWidth, matrices[i].matrixHeight>>],
           tileSizes |-> [i \in 1..length |->
                        <<matrices[i].tileWidth, matrices[i].tileHeight>>]])
    IN  [w EXCEPT !.ogc.tileGrid = Some(tileGrid),
                  !.ogc.tileUrlFunction =
                     Some([tileMatrixSetId |-> w.ogc.tileMatrixSet,
                           tileUrlTemplate |-> Get(w.ogc.tileUrlTemplate),
                           context |-> w.ogc.context,
                           matrices |-> matrices]),
                  !.ogc.state = "ready"]

\* A mutant of handleTileMatrixSetResponse: the projection is always the
\* one supportedCRS names
handleTileMatrixSetResponse_FromDefinition(w, tileMatrixSet) ==
  IF IsNull(tileMatrixSet)
  THEN Throw(w, TypeError("tileMatrixSet.supportedCRS"))
  ELSE
    LET supportedCRS ==
          IF Has(tileMatrixSet, "supportedCRS")
          THEN tileMatrixSet.supportedCRS ELSE None
        projection == getProjection(supportedCRS)
    IN  IF ~IsSome(projection)
        THEN handleError(w, Error(<<"Unsupported CRS: ",
               IF IsSome(supportedCRS) THEN Get(supportedCRS) ELSE "undefined">>))
        ELSE BuildTileGrid(w, tileMatrixSet, Get(projection))

\* handleTileMatrixSetResponse(tileMatrixSet)
handleTileMatrixSetResponse(w, tileMatrixSet) ==
  IF IsSome(w.ogc.projection)
  THEN IF IsNull(tileMatrixSet)
       THEN Throw(w, TypeError("tileMatrixSet.tileMatrix"))
       ELSE BuildTileGrid(w, tileMatrixSet, Get(w.ogc.projection))
  ELSE
    IF IsNull(tileMatrixSet)
    THEN Throw(w, TypeError("tileMatrixSet.supportedCRS"))
    ELSE
      LET supportedCRS ==
            IF Has(tileMatrixSet, "supportedCRS")
            THEN tileMatrixSet.supportedCRS ELSE None
          projection == getProjection(supportedCRS)
      IN  IF ~IsSome(projection)
          THEN handleError(w, Error(<<"Unsupported CRS: ",
                 IF IsSome(supportedCRS) THEN Get(supportedCRS) ELSE "undefined">>))
          ELSE BuildTileGrid(w, tileMatrixSet, Get(projection))

\* onTilesTileMatrixSetLoad(event)
onTilesTileMatrixSetLoad(w, client) ==
  IF StatusOK(client.status)
  THEN LET parsed == JSONParse(client.responseText)
       IN  IF ~parsed.ok
           THEN handleError(w, parsed.error)
           ELSE handleTileMatrixSetResponse(w, parsed.value)
  ELSE handleError(w, Error(<<"Unexpected status for tile matrix set: ",
                              ToString(client.status)>>))

\* onTilesTileMatrixSetError(event)
onTilesTileMatrixSetError(w) ==
  handleError(w, Error(<<"client error loading tile matrix set">>))

\* assign(target, source): copies the own properties of source, when it is
\* neither undefined nor null, over those of target
Assign(target, source) ==
  IF ~IsSome(source) THEN target
  ELSE LET src == Get(source)
       IN  [k \in DOMAIN target \cup DOMAIN src |->
              IF k \in DOMAIN src THEN src[k] ELSE target[k]]

\* the replacer function (m, p) => localContext[p], converted to a string
\* as String.prototype.replace does
Replacement(localContext, p) ==
  IF p \in DOMAIN localContext THEN String(localContext[p]) ELSE "undefined"

\* tileUrlTemplate.replace(/\{(\w+?)\}/g, replacer), from token i on
RECURSIVE ReplaceFrom(_, _, _)
ReplaceFrom(template, i, localContext) ==
  IF i > Len(template) THEN ""
  ELSE IF /\ template[i] = "{"
          /\ i + 2 <= Len(template)
          /\ template[i + 1] \notin Punctuation
          /\ template[i + 2] = "}"
       THEN Replacement(localContext, template[i + 1])
              \o ReplaceFrom(template, i + 3, localContext)
       ELSE template[i] \o ReplaceFrom(template, i + 1, localContext)

\* TileMatrixKey that takes the level for the identifier
TileMatrixKey_Level(matrices, z) == Num(z)

\* localContext.tileMatrix
TileMatrixKey(matrices, z) == Str(matrices[z + 1].identifier)

\* The function given to setTileUrlFunction, with the variables it closes
\* over in f; tileCoord is None for a null tile coordinate.
tileUrlFunction(f, tileCoord) ==
  IF ~IsSome(tileCoord)
  THEN [result |-> None, threw |-> FALSE]
  ELSE
    LET z == Get(tileCoord)[1]
    IN  IF z + 1 \notin 1..Len(f.matrices)
        THEN [result |-> None, threw |-> TRUE]
        ELSE
          LET localContext == Assign(
                [tileMatrixSetId |-> Str(f.tileMatrixSetId),
                 tileMatrix |-> TileMatrixKey(f.matrices, z),
                 tileCol |-> Num(Get(tileCoord)[2]),
                 tileRow |-> Num(Get(tileCoord)[3])],
                f.context)
          IN  [result |-> Some(ReplaceFrom(f.tileUrlTemplate, 1, localContext)),
               threw |-> FALSE]

----------------------------------------------------------------------------
(* OGCMapTile: the state machine *)

TileCols == {0, 3}
TileRows == {0, 2}
TileCoords ==
  {None} \cup {Some(<<z, x, y>>) : z \in 0..MaxLevels, x \in TileCols, y \in TileRows}

NoUrlCall == [called |-> FALSE, tileCoord |-> None, result |-> None, threw |-> FALSE]

\* The fields of a GeoTIFFSource before its constructor has run
IdleTiff ==
  [constructed |-> FALSE, thrown |-> None, state |-> "undefined",
   tileGrid |-> None, projection |-> None, sourceInfo_ |-> <<>>,
   sourceImagery_ |-> <<>>, samplesPerPixel_ |-> None, error_ |-> None,
   loader |-> None]

\* new OGCMapTile(options): the constructor ends with loadTilesInfo(url)
InitResolver(c) ==
  /\ component = c
  /\ \E tileMatrixSet \in MatrixSetIds, context \in Contexts,
        projection \in ProjectionOptions :
       ogc = [state |-> "loading",
              projection |-> getProjection(projection),
              tileMatrixSet |-> tileMatrixSet,
              tileMatrixSetLimits |-> None,
              tileUrlTemplate |-> None,
              context |-> context,
              tileGrid |-> None,
              tileUrlFunction |-> None]
  /\ xhr = <<NewRequest("tiles", "onTilesInfoLoad", "onTilesInfoError")>>
  /\ console = <<>>
  /\ uncaught = <<>>
  /\ urlCall = NoUrlCall
  /\ tiff = IdleTiff
  /\ requests = <<>>
  /\ joined = None
  /\ tileLoad = None
  /\ inFlight = <<>>
  /\ tile = None
  /\ texture = None
  /\ gl = None

InitOGC == InitResolver("ogc")

InitUrl == InitResolver("url")

World == [ogc |-> ogc, xhr |-> xhr, console |-> console, uncaught |-> uncaught]

\* The browser delivers event to request i, and World becomes w
Deliver(i, event, w) ==
  /\ ogc' = w.ogc
  /\ xhr' = [w.xhr EXCEPT ![i].event = Some(event)]
  /\ console' = w.console
  /\ uncaught' = w.uncaught
  /\ UNCHANGED <<component, urlCall, tiffVars, texVars>>

\* A request fires exactly one of load and error, once
Pending(i, handler) ==
  /\ component \in {"ogc", "url"}
  /\ i \in 1..Len(xhr)
  /\ ~IsSome(xhr[i].event)
  /\ handler \in {xhr[i].load, xhr[i].error}

OnTilesInfoLoad ==
  \E i \in 1..Len(xhr), event \in TilesInfoEvents :
    /\ Pending(i, "onTilesInfoLoad")
    /\ Deliver(i, event, onTilesInfoLoad(World, event))

OnTilesInfoError ==
  \E i \in 1..Len(xhr) :
    /\ Pending(i, "onTilesInfoError")
    /\ Deliver(i, ErrorEvent, onTilesInfoError(World))

OnTilesTileMatrixSetLoad ==
  \E i \in 1..Len(xhr), event \in TileMatrixSetEvents :
    /\ Pending(i, "onTilesTileMatrixSetLoad")
    /\ Deliver(i, event, onTilesTileMatrixSetLoad(World, event))

OnTilesTileMatrixSetError ==
  \E i \in 1..Len(xhr) :
    /\ Pending(i, "onTilesTileMatrixSetError")
    /\ Deliver(i, ErrorEvent, onTilesTileMatrixSetError(World))

\* The tile source calls the installed tile URL function
TileUrl ==
  /\ component = "url"
  /\ IsSome(ogc.tileUrlFunction)
  /\ \E tileCoord \in TileCoords :
       LET r == tileUrlFunction(Get(ogc.tileUrlFunction), tileCoord)
       IN  urlCall' = [called |-> TRUE, tileCoord |-> tileCoord,
                       result |-> r.result, threw |-> r.threw]
  /\ UNCHANGED <<component, ogc, xhr, console, uncaught, tiffVars, texVars>>

NextOGC ==
  \/ OnTilesInfoLoad
  \/ OnTilesInfoError
  \/ OnTilesTileMatrixSetLoad
  \/ OnTilesTileMatrixSetError

NextUrl ==
  \/ NextOGC
  \/ TileUrl

\* The resolver against a server that answers anything
SpecOGC == InitOGC /\ [][NextOGC]_vars

\* The resolver against a conforming server, and the use of its tile URL
\* function
SpecUrl == InitUrl /\ [][NextUrl]_vars

----------------------------------------------------------------------------
(* OGCMapTile: what the claims speak of *)

Completed(i) == i \in 1..Len(xhr) /\ IsSome(xhr[i].event)
Event(i) == Get(xhr[i].event)
IsTilesInfoRequest(i) == xhr[i].load = "onTilesInfoLoad"
IsTileMatrixSetRequest(i) == xhr[i].load = "onTilesTileMatrixSetLoad"

\* Request i was answered with a status the resolver accepts and a body
\* that is JSON
ParsedJSON(i) ==
  /\ Completed(i)
  /\ Event(i).type = "load"
  /\ (Event(i).status = 0 \/ Event(i).status \in 200..299)
  /\ Event(i).responseText.json

Body(i) == Event(i).responseText.value
IsObject(v) == "null" \notin DOMAIN v

Terminal == ogc.state \in {"ready", "error"}

\* C1: the resolver starts in LOADING; the state changes at most once, from
\* LOADING to READY or to ERROR; in READY and in ERROR the state never
\* changes again, no request is created and none is left in flight (each
\* request fires one load or error event, once).
C1_OneTransition ==
  /\ ogc.state = "loading"
  /\ [][ /\ ogc'.state # ogc.state =>
              ogc.state = "loading" /\ ogc'.state \in {"ready", "error"}
         /\ Terminal => ogc'.state = ogc.state /\ Len(xhr') = Len(xhr) ]_vars
  /\ [](Terminal => \A i \in 1..Len(xhr) : Completed(i))

C1_Witness ==
  /\ ogc.state = "ready"
  /\ Len(xhr) = 2
  /\ \A i \in 1..2 : Completed(i)

\* The tileset description of request 1 has a tileMatrixSetLinks array with
\* no entry for the requested tile matrix set
NoMatrixSetLink ==
  /\ ParsedJSON(1)
  /\ IsObject(Body(1))
  /\ "tileMatrixSetLinks" \in DOMAIN Body(1)
  /\ \A k \in 1..Len(Body(1).tileMatrixSetLinks) :
        Body(1).tileMatrixSetLinks[k].tileMatrixSet # ogc.tileMatrixSet

\* The tileset description of request 1 has a link with rel "item" that
\* carries a template
HasItemLink ==
  /\ ParsedJSON(1)
  /\ IsObject(Body(1))
  /\ "links" \in DOMAIN Body(1)
  /\ \E k \in 1..Len(Body(1).links) :
        /\ Body(1).links[k].rel = "item"
        /\ Body(1).links[k].href \notin {None, Some(<<>>)}
        /\ \A j \in 1..(k - 1) : Body(1).links[j].rel # "item"

ErrorNamesMatrixSet ==
  /\ ogc.state = "error"
  /\ Len(console) = 1
  /\ ogc.tileMatrixSet \in Range(console[1].message)
  /\ Len(xhr) = 1

\* C2 (as stated): a tileset description without a tileMatrixSetLinks entry
\* for the requested id puts the resolver in ERROR with an error whose
\* message names the id, and no second request is sent.  It is stated here
\* for the descriptions that have a links array, on which
\* handleTilesInfoResponse does not throw.
C2_Original ==
  (NoMatrixSetLink /\ "links" \in DOMAIN Body(1)) => ErrorNamesMatrixSet

\* C2 (amended): the same, for a tileset description that has an item link;
\* without an item link the error is the one of the missing item link.
C2_MissingMatrixSet == (HasItemLink /\ NoMatrixSetLink) => ErrorNamesMatrixSet

C2_Witness ==
  /\ HasItemLink
  /\ NoMatrixSetLink
  /\ Len(Body(1).tileMatrixSetLinks) > 0
  /\ ErrorNamesMatrixSet

\* The failures of the two stages that C3 lists
TransportError(i) == Completed(i) /\ Event(i).type = "error"
HttpFailure(i) ==
  /\ Completed(i)
  /\ Event(i).type = "load"
  /\ Event(i).status # 0
  /\ Event(i).status \notin 200..299
MalformedJSON(i) ==
  /\ Completed(i)
  /\ Event(i).type = "load"
  /\ (Event(i).status = 0 \/ Event(i).status \in 200..299)
  /\ ~Event(i).responseText.json
\* a tileset description none of whose links has rel "item"
NoItemLink(i) ==
  /\ IsTilesInfoRequest(i)
  /\ ParsedJSON(i)
  /\ IsObject(Body(i))
  /\ ("links" \in DOMAIN Body(i) =>
        \A k \in 1..Len(Body(i).links) : Body(i).links[k].rel # "item")
\* a definition whose supportedCRS is not a registered projection, received
\* by a resolver that was given no projection
UnsupportedCRS(i) ==
  /\ IsTileMatrixSetRequest(i)
  /\ ParsedJSON(i)
  /\ IsObject(Body(i))
  /\ ~IsSome(ogc.projection)
  /\ ("supportedCRS" \in DOMAIN Body(i) =>
        \/ ~IsSome(Body(i).supportedCRS)
        \/ Get(Body(i).supportedCRS) \notin DOMAIN ProjectionRegistry)

\* C3: after any of the listed failures, at either stage, the state is ERROR
\* (and, the state being terminal, READY is never reached).
C3_FailuresEndInError ==
  \A i \in 1..Len(xhr) :
    (\/ TransportError(i)
     \/ HttpFailure(i)
     \/ MalformedJSON(i)
     \/ NoItemLink(i)
     \/ UnsupportedCRS(i)) => ogc.state = "error"

\* C4: a response handler never throws: nothing is uncaught, and once a
\* request was answered with JSON the resolver is in READY or ERROR or has
\* sent the next request.
C4_NoUncaught ==
  /\ uncaught = <<>>
  /\ \A i \in 1..Len(xhr) :
       ParsedJSON(i) => (Terminal \/ Len(xhr) > i)

\* The projection the grid was built with: the one given at construction,
\* else the one the definition names
GridProjection ==
  IF IsSome(ogc.projection) THEN Get(ogc.projection)
  ELSE ProjectionRegistry[Get(Body(2).supportedCRS)]

EastNorth(projection) ==
  projection.axisOrientation[1] = "e" /\ projection.axisOrientation[2] = "n"

Swapped(pair) == <<pair[2], pair[1]>>

\* C5: the origin of level i is the topLeftCorner of matrix i, with its two
\* coordinates swapped exactly when the first two axes of the projection
\* are not (east, north).
C5_AxisOrder ==
  IsSome(ogc.tileGrid) =>
    LET origins == Get(ogc.tileGrid).origins
        matrices == Body(2).tileMatrix
    IN  /\ Len(origins) = Len(matrices)
        /\ \A i \in 1..Len(matrices) :
             origins[i] = IF EastNorth(GridProjection)
                          THEN matrices[i].topLeftCorner
                          ELSE Swapped(matrices[i].topLeftCorner)

C5_Witness ==
  /\ IsSome(ogc.tileGrid)
  /\ ~EastNorth(GridProjection)
  /\ Len(Get(ogc.tileGrid).origins) = 2
  /\ Get(ogc.tileGrid).origins[2] = <<-180, 90>>
  /\ Body(2).tileMatrix[2].topLeftCorner = <<90, -180>>

\* A valid definition lists its matrices from the coarsest to the finest:
\* positive scale denominators, strictly decreasing in declared order
ValidDefinition(tileMatrixSet) ==
  /\ "tileMatrix" \in DOMAIN tileMatrixSet
  /\ \A i \in 1..Len(tileMatrixSet.tileMatrix) :
       tileMatrixSet.tileMatrix[i].scaleDenominator > 0
  /\ \A i \in 1..(Len(tileMatrixSet.tileMatrix) - 1) :
       tileMatrixSet.tileMatrix[i].scaleDenominator
         > tileMatrixSet.tileMatrix[i + 1].scaleDenominator

\* C6: for a valid definition the grid has one resolution per matrix, in
\* declared order, resolution[i] * metersPerUnit = scaleDenominator[i] *
\* 0.00028, and resolution[i] > resolution[i+1] for all i.
C6_Resolutions ==
  (IsSome(ogc.tileGrid) /\ ValidDefinition(Body(2))) =>
    LET resolutions == Get(ogc.tileGrid).resolutions
        matrices == Body(2).tileMatrix
    IN  /\ Len(resolutions) = Len(matrices)
        /\ \A i \in 1..Len(matrices) :
             RatMul(resolutions[i], GridProjection.metersPerUnit)
               = Rat(matrices[i].scaleDenominator * 7, 25000)
        /\ \A i \in 1..(Len(matrices) - 1) :
             RatLess(resolutions[i + 1], resolutions[i])

C6_Witness ==
  /\ ogc.state = "ready"
  /\ ValidDefinition(Body(2))
  /\ Len(Get(ogc.tileGrid).resolutions) = 2
  /\ GridProjection.metersPerUnit # Rat(1, 1)
  /\ RatLess(Get(ogc.tileGrid).resolutions[2], Get(ogc.tileGrid).resolutions[1])

\* What a {key} placeholder stands for in a call for (level, col, row): the
\* entry of the caller's context if it has one, else the entry of the four
\* built-in keys, else the text "undefined"
Substitute(key, level, col, row) ==
  IF IsSome(ogc.context) /\ key \in DOMAIN Get(ogc.context)
  THEN Get(ogc.context)[key].s
  ELSE CASE key = "tileMatrixSetId" -> ogc.tileMatrixSet
         [] key = "tileMatrix" -> Body(2).tileMatrix[level + 1].identifier
         [] key = "tileCol" -> ToString(col)
         [] key = "tileRow" -> ToString(row)
         [] OTHER -> "undefined"

\* The URL each href template of the model resolves to
ExpectedUrl(template, level, col, row) ==
  LET V(key) == Substitute(key, level, col, row)
  IN  CASE template = TemplateCanonical ->
             V("tileMatrixSetId") \o "/" \o V("tileMatrix") \o "/"
               \o V("tileCol") \o "/" \o V("tileRow")
        [] template = TemplateStyled ->
             V("styleId") \o "/" \o V("tileMatrix") \o "/"
               \o V("tileRow") \o "/" \o V("tileCol") \o "?f=" \o V("f")
        [] template = TemplateOddBraces ->
             "{}/{tileCol-}/" \o V("tileRow") \o "}"

\* C7: the tile URL function of a READY resolver, called for (level, col,
\* row) with level the index of a matrix, returns the template with every
\* {name} placeholder replaced from {tileMatrixSetId, tileMatrix: the
\* identifier of matrix level, tileCol, tileRow} extended with the caller's
\* context; a placeholder without an entry does not make it throw; the
\* canonical template with "WebMercatorQuad", identifier "4", column 3 and
\* row 2 gives "WebMercatorQuad/4/3/2".
C7_TileUrl ==
  (urlCall.called /\ IsSome(urlCall.tileCoord)) =>
    LET level == Get(urlCall.tileCoord)[1]
        col == Get(urlCall.tileCoord)[2]
        row == Get(urlCall.tileCoord)[3]
        InRange == level + 1 \in 1..Len(Body(2).tileMatrix)
    IN  /\ ogc.state = "ready"
        /\ InRange =>
             /\ ~urlCall.threw
             /\ urlCall.result
                  = Some(ExpectedUrl(Get(ogc.tileUrlTemplate), level, col, row))
             /\ ( /\ Get(ogc.tileUrlTemplate) = TemplateCanonical
                  /\ ogc.tileMatrixSet = "WebMercatorQuad"
                  /\ ~IsSome(ogc.context)
                  /\ Body(2).tileMatrix[level + 1].identifier = "4"
                  /\ col = 3 /\ row = 2 )
                => urlCall.result = Some("WebMercatorQuad/4/3/2")

C7_Witness ==
  /\ urlCall.called
  /\ urlCall.tileCoord = Some(<<1, 3, 2>>)
  /\ urlCall.result = Some("WebMercatorQuad/4/3/2")

----------------------------------------------------------------------------
(* GeoTIFFSource: the environment (source descriptors, GeoTIFF images) *)

\* SourceInfo: overviews is present or not; min, max and nodata are
\* numbers or undefined
SourceInfos ==
  { [url |-> "a.tif", overviews |-> None, min |-> None, max |-> None,
     nodata |-> None],
    [url |-> "b.tif", overviews |-> Some(<<"b.ovr">>), min |-> Some(0),
     max |-> Some(255), nodata |-> Some(0)],
    [url |-> "c.tif", overviews |-> None, min |-> Some(100), max |-> Some(200),
     nodata |-> None] }

\* The descriptor with the given url
SourceInfo(url) == CHOOSE source \in SourceInfos : source.url = url

\* options.sources.  Where tiles are loaded: every list of one to three
\* descriptors.  Where the source is constructed and configured: one list of
\* every length, the empty list and the lists of four and more included.
SourceLists ==
  IF component = "load"
  THEN UNION {[1..k -> SourceInfos] : k \in 1..3}
  ELSE IF component = "scale"
  THEN UNION {[1..k -> SourceInfos] : k \in 1..2}
  ELSE IF component = "concurrent"
  THEN {<<SourceInfo("b.tif")>>, <<SourceInfo("a.tif"), SourceInfo("b.tif")>>}
  ELSE {[i \in 1..k |-> SourceInfo(<<"b.tif", "a.tif", "c.tif">>[(i % 3) + 1])] :
          k \in 0..MaxSources}

\* A GeoTIFFImage, by what its accessors return
Image(samplesPerPixel, boundingBox, origin, resolution, tileSize) ==
  [samplesPerPixel |-> samplesPerPixel,
   boundingBox |-> boundingBox,
   origin |-> origin,
   resolution |-> resolution,
   tileWidth |-> tileSize[1],
   tileHeight |-> tileSize[2],
   arrayType |-> "Uint8Array",
   geoKeys |-> Some([ProjectedCSTypeGeoKey |-> 3857])]

\* The images of a GeoTIFF of the reference structure, finest first: two
\* levels over the same extent
ReferenceImages(samplesPerPixel) ==
  << Image(samplesPerPixel, <<0, 0, 4, 2>>, <<0, 2, 0>>, 1, <<2, 1>>),
     Image(samplesPerPixel, <<0, 0, 4, 2>>, <<0, 2, 0>>, 2, <<1, 1>>) >>

\* GeoTIFFs that differ from the reference structure (one band)
OtherImageLists ==
  LET ref == ReferenceImages(1)
  IN  { <<ref[1]>>,
        <<>>,
        <<[ref[1] EXCEPT !.boundingBox = <<0, 0, 8, 2>>], ref[2]>>,
        <<ref[1], [ref[2] EXCEPT !.boundingBox = <<0, 0, 8, 2>>]>>,
        <<[ref[1] EXCEPT !.origin = <<1, 2, 0>>], ref[2]>>,
        <<ref[1], [ref[2] EXCEPT !.origin = <<1, 2, 0>>]>>,
        <<ref[1], [ref[2] EXCEPT !.resolution = 4]>>,
        <<ref[1], [ref[2] EXCEPT !.tileHeight = 2]>>,
        <<ref[1], [ref[2] EXCEPT !.samplesPerPixel = 3]>>,
        <<[ref[1] EXCEPT !.geoKeys = None], [ref[2] EXCEPT !.geoKeys = None]>>,
        <<[ref[1] EXCEPT !.arrayType = "Int8Array"],
          [ref[2] EXCEPT !.arrayType = "Int8Array"]>> }

\* The one-band GeoTIFF of the reference structure with signed 8-bit samples
SignedImages ==
  [i \in 1..2 |-> [ReferenceImages(1)[i] EXCEPT !.arrayType = "Int8Array"]]

\* What getImagesForSource can resolve to
ImageLists ==
  {ReferenceImages(n) :
     n \in IF component = "concurrent" THEN {1} ELSE 1..MaxSamples}
  \cup (IF component \in {"tiff", "use"} THEN OtherImageLists ELSE {})
  \cup (IF component = "scale" THEN {SignedImages} ELSE {})

\* What getImagesForSource can reject with
FetchErrors == {Error(<<"Request failed">>), Error(<<"Invalid byte order value">>)}

----------------------------------------------------------------------------
(* GeoTIFFSource: construction and configuration *)

\* A mutant of images.reverse(): the images stay in their native order
Reverse_NativeOrder(seq) == seq

\* images.reverse()
Reverse(seq) == [i \in 1..Len(seq) |-> seq[Len(seq) + 1 - i]]

\* getImagesForSource(source): the promise of the images of one source
getImagesForSource(source) ==
  [request |-> IF IsSome(source.overviews) THEN "tiffFromUrls" ELSE "tiffFromUrl",
   url |-> source.url,
   settled |-> None]

\* the limit of the source count test of the constructor
SourceLimit == 4

\* AcceptsSourceCount that lets four sources in
AcceptsSourceCount_OffByOne(numSources) == numSources > 0 /\ numSources <= SourceLimit

\* numSources > 0 && numSources < 4
AcceptsSourceCount(numSources) == numSources > 0 /\ numSources < SourceLimit

\* new GeoTIFFSource(options), to the point where the constructor returns
\* or throws: the instance and the promises it has created
constructor(sources) ==
  LET numSources == Len(sources)
      self == [IdleTiff EXCEPT !.state = "loading", !.sourceInfo_ = sources]
  IN  IF ~AcceptsSourceCount(numSources)
      THEN [tiff |-> [self EXCEPT
                        !.thrown = Some(Error(<<"Accepts 1, 2, or 3 sources">>))],
            requests |-> <<>>]
      ELSE [tiff |-> [self EXCEPT
                        !.constructed = TRUE,
                        !.sourceImagery_ = [i \in 1..numSources |-> None]],
            requests |-> [i \in 1..numSources |-> getImagesForSource(sources[i])]]

\* AssertEqual that only requires a value
AssertEqual_Lenient(expected, got) == IsSome(got)

\* assertEqual(expected, got, message) does not throw: expected is an array
\* or a number, got may be undefined
AssertEqual(expected, got) == IsSome(got) /\ Get(got) = expected

\* !x for a number-valued x that may be undefined
Unset(x) == ~IsSome(x) \/ Get(x) = 0

\* The image loop of configure_ for one source, from image i on: the
\* samplesPerPixel it leaves, or the error of the first band count mismatch
RECURSIVE ScanImages(_, _, _, _)
ScanImages(images, i, samplesPerPixel, sourceIndex) ==
  IF i > Len(images)
  THEN [samplesPerPixel |-> samplesPerPixel, thrown |-> None]
  ELSE
    LET imageSamplesPerPixel == images[i].samplesPerPixel
    IN  IF Unset(samplesPerPixel)
        THEN ScanImages(images, i + 1, Some(imageSamplesPerPixel), sourceIndex)
        ELSE IF Get(samplesPerPixel) # imageSamplesPerPixel
             THEN [samplesPerPixel |-> samplesPerPixel,
                   thrown |-> Some(Error(
                     <<"Band count mismatch for source ", ToString(sourceIndex),
                       ", got ", ToString(imageSamplesPerPixel),
                       " but expected ", ToString(Get(samplesPerPixel))>>))]
             ELSE ScanImages(images, i + 1, samplesPerPixel, sourceIndex)

\* The source loop of configure_, from source k on (sourceIndex = k - 1).
\* c holds the local variables extent, origin, tileSizes, resolutions and
\* samplesPerPixel, the sourceImagery_ written so far, and the error thrown.
RECURSIVE ScanSources(_, _, _)
ScanSources(sources, k, c) ==
  IF k > Len(sources) \/ IsSome(c.thrown) THEN c
  ELSE
    LET sourceIndex == k - 1
        images == sources[k]
        imageCount == Len(images)
        scan == ScanImages(images, 1, c.samplesPerPixel, sourceIndex)
        sourceExtent ==
          IF imageCount = 0 THEN None ELSE Some(images[1].boundingBox)
        sourceOrigin ==
          IF imageCount = 0 THEN None ELSE Some(SubSeq(images[1].origin, 1, 2))
        \* level = imageCount - (imageIndex + 1)
        sourceResolutions ==
          [level \in 1..imageCount |-> images[imageCount + 1 - level].resolution]
        sourceTileSizes ==
          [level \in 1..imageCount |->
             <<images[imageCount + 1 - level].tileWidth,
               images[imageCount + 1 - level].tileHeight>>]
        Mismatch(what) ==
          Some(Error(<<what, " mismatch for source ", ToString(sourceIndex)>>))
        thrown ==
          IF IsSome(scan.thrown) THEN scan.thrown
          ELSE IF IsSome(c.extent) /\ ~AssertEqual(Get(c.extent), sourceExtent)
          THEN Mismatch("Extent")
          ELSE IF IsSome(c.origin) /\ ~AssertEqual(Get(c.origin), sourceOrigin)
          THEN Mismatch("Origin")
          ELSE IF IsSome(c.tileSizes)
                  /\ ~AssertEqual(Get(c.tileSizes), Some(sourceTileSizes))
          THEN Mismatch("Tile size")
          ELSE IF IsSome(c.resolutions)
                  /\ ~AssertEqual(Get(c.resolutions), Some(sourceResolutions))
          THEN Mismatch("Resolution")
          ELSE None
    IN  IF IsSome(thrown)
        THEN [c EXCEPT !.thrown = thrown, !.samplesPerPixel = scan.samplesPerPixel]
        ELSE ScanSources(sources, k + 1,
               [c EXCEPT
                  !.samplesPerPixel = scan.samplesPerPixel,
                  !.extent = IF IsSome(@) THEN @ ELSE sourceExtent,
                  !.origin = IF IsSome(@) THEN @ ELSE sourceOrigin,
                  !.tileSizes = IF IsSome(@) THEN @ ELSE Some(sourceTileSizes),
                  !.resolutions = IF IsSome(@) THEN @ ELSE Some(sourceResolutions),
                  !.sourceImagery_[k] = Some(Reverse(images))])

\* BandPolicy that takes any band count from a single source
BandPolicy_AnySingle(sourceCount, samplesPerPixel) ==
  IF sourceCount = 1 THEN TRUE ELSE samplesPerPixel = 1

\* The band count test of configure_ does not throw
BandPolicy(sourceCount, samplesPerPixel) ==
  IF sourceCount = 1
  THEN samplesPerPixel = 1 \/ samplesPerPixel = 3 \/ samplesPerPixel = 4
  ELSE samplesPerPixel = 1

\* The projection configure_ derives from the geo keys of sources[0][0],
\* which after images.reverse() is the coarsest image of the first source
DerivedProjection(firstImage) ==
  IF ~IsSome(firstImage.geoKeys) THEN None
  ELSE LET geoKeys == Get(firstImage.geoKeys)
           code == IF "ProjectedCSTypeGeoKey" \in DOMAIN geoKeys
                      /\ geoKeys.ProjectedCSTypeGeoKey # 0
                   THEN geoKeys.ProjectedCSTypeGeoKey
                   ELSE IF "GeographicTypeGeoKey" \in DOMAIN geoKeys
                   THEN geoKeys.GeographicTypeGeoKey
                   ELSE 0
       IN  IF code = 0 THEN None
           ELSE getProjection(Some("EPSG:" \o ToString(code)))

\* configure_(sources): the instance after it returns or throws, and the
\* error it throws
configure_(self, sources) ==
  LET sourceCount == Len(sources)
      c == ScanSources(sources, 1,
             [extent |-> None, origin |-> None, tileSizes |-> None,
              resolutions |-> None, samplesPerPixel |-> None,
              sourceImagery_ |-> self.sourceImagery_, thrown |-> None])
      scanned == [self EXCEPT !.sourceImagery_ = c.sourceImagery_]
  IN  IF IsSome(c.thrown) THEN [tiff |-> scanned, thrown |-> c.thrown]
      ELSE IF Len(sources[1]) = 0
      THEN [tiff |-> scanned, thrown |-> Some(TypeError("firstImage.geoKeys"))]
      ELSE
        LET firstImage == Get(c.sourceImagery_[1])[1]
            projected == [scanned EXCEPT !.projection = DerivedProjection(firstImage)]
        IN  IF ~BandPolicy(sourceCount, Get(c.samplesPerPixel))
            THEN [tiff |-> projected,
                  thrown |-> Some(Error(
                    IF sourceCount = 1
                    THEN <<"Expected a grayscale, RGB, or RGBA source, found ",
                           ToString(Get(c.samplesPerPixel)), " samples per pixel">>
                    ELSE <<"Expected single band GeoTIFFs when using multiple sources">>))]
            ELSE [tiff |-> [projected EXCEPT
                              !.samplesPerPixel_ = c.samplesPerPixel,
                              !.tileGrid = Some(TileGrid(
                                 [extent |-> c.extent, origin |-> c.origin,
                                  resolutions |-> Get(c.resolutions),
                                  tileSizes |-> Get(c.tileSizes)])),
                              !.loader = Some("loadTile_"),
                              !.state = "ready"],
                  thrown |-> None]

----------------------------------------------------------------------------
(* GeoTIFFSource: loadTile_ *)

\* The values a raw sample takes in the model
SampleValues == {0, 128}

\* The values a raw sample of an array of the given type takes: the ends of
\* the range of a signed type; for an unsigned type SampleValues, and where
\* the rescaling is examined the ends of the range and 128
SamplesOf(arrayType) ==
  IF arrayType = "Int8Array" THEN {-128, 127}
  ELSE IF component = "scale" THEN {0, 128, 255}
  ELSE SampleValues

\* getMinforDataType(array), by the name of the class of the array.
\* Float32Array, whose bounds are not integers, and Uint32Array are not
\* among the array types of the model.
getMinforDataType(arrayType) ==
  CASE arrayType = "Int8Array" -> -128
    [] arrayType = "Int16Array" -> -32768
    [] arrayType = "Int32Array" -> -2147483647 - 1
    [] OTHER -> 0

\* getMaxforDataType(array)
getMaxforDataType(arrayType) ==
  CASE arrayType = "Int8Array" -> 127
    [] arrayType = "Uint8Array" -> 255
    [] arrayType = "Uint8ClampedArray" -> 255
    [] arrayType = "Int16Array" -> 32767
    [] arrayType = "Uint16Array" -> 65535
    [] arrayType = "Int32Array" -> 2147483647
    [] OTHER -> 255

\* The conversion of a number to an element of a Uint8ClampedArray: rounded
\* to the nearest integer, ties to even, and clamped to 0..255
ToUint8Clamp(r) ==
  LET q == r.n \div r.d
      rem == r.n - q * r.d
      rounded == IF 2 * rem < r.d THEN q
                 ELSE IF 2 * rem > r.d THEN q + 1
                 ELSE IF q % 2 = 0 THEN q ELSE q + 1
  IN  IF rounded < 0 THEN 0 ELSE IF rounded > 255 THEN 255 ELSE rounded

\* data[index] = value: a write outside the array is ignored
Store(data, index, value) ==
  IF index \in DOMAIN data THEN [data EXCEPT ![index] = ToUint8Clamp(value)]
  ELSE data

\* gain * sourceValue + bias, with gain = 255 / (max - min) and
\* bias = -min * gain (max # min for every source of the model)
Scaled(sourceValue, min, max) == Rat(255 * (sourceValue - min), max - min)

\* The index the alpha of a pixel is written to after a source
AlphaIndex(sampleOffset) == sampleOffset + 3

\* data[index] = value while pixel pixelIndex is processed: st.writes keeps
\* the index with the pixel
Write(st, pixelIndex, index, value) ==
  [st EXCEPT !.data = Store(@, index, value),
             !.writes = @ \cup {<<pixelIndex, index>>}]

\* The sample loop for one pixel and one source, from sample sampleIndex on.
\* t holds the locals and constants of the call, st the data, the flag
\* transparent and the writes made so far.
RECURSIVE SampleLoop(_, _, _, _, _)
SampleLoop(t, st, pixelIndex, sourceIndex, sampleIndex) ==
  IF sampleIndex >= t.samplesPerPixel THEN st
  ELSE
    LET source == t.sourceInfo[sourceIndex + 1]
        samples == t.sourceSamples[sourceIndex + 1]
        min == IF IsSome(source.min) THEN Get(source.min)
               ELSE getMinforDataType(samples.arrayType)
        max == IF IsSome(source.max) THEN Get(source.max)
               ELSE getMaxforDataType(samples.arrayType)
        sampleOffset == pixelIndex * t.bandCount + sourceIndex * t.samplesPerPixel
        sourceValue == samples.bands[sampleIndex + 1][pixelIndex + 1]
        value == Scaled(sourceValue, min, max)
        after ==
          IF ~t.addAlpha
          THEN Write(st, pixelIndex, sampleOffset + sampleIndex, value)
          ELSE IF source.nodata # Some(sourceValue)
          THEN LET d1 == Write(st, pixelIndex, sampleOffset + sampleIndex, value)
                   d3 == IF t.additionalBands = 3
                         THEN Write(Write(d1, pixelIndex,
                                          sampleOffset + sampleIndex + 1, value),
                                    pixelIndex, sampleOffset + sampleIndex + 2, value)
                         ELSE d1
               IN  [d3 EXCEPT !.transparent = FALSE]
          ELSE st
    IN  SampleLoop(t, after, pixelIndex, sourceIndex, sampleIndex + 1)

\* The source loop for one pixel, from source sourceIndex on
RECURSIVE SourceLoop(_, _, _, _)
SourceLoop(t, st, pixelIndex, sourceIndex) ==
  IF sourceIndex >= t.sourceCount THEN st
  ELSE
    LET sampleOffset == pixelIndex * t.bandCount + sourceIndex * t.samplesPerPixel
        sampled == SampleLoop(t, st, pixelIndex, sourceIndex, 0)
        after ==
          IF t.addAlpha /\ ~sampled.transparent
          THEN Write(sampled, pixelIndex, AlphaIndex(sampleOffset), Rat(255, 1))
          ELSE sampled
    IN  SourceLoop(t, after, pixelIndex, sourceIndex + 1)

\* The pixel loop, from pixel pixelIndex on
RECURSIVE PixelLoop(_, _, _)
PixelLoop(t, st, pixelIndex) ==
  IF pixelIndex >= t.pixelCount THEN st
  ELSE PixelLoop(t,
         SourceLoop(t, [st EXCEPT !.transparent = t.addAlpha], pixelIndex, 0),
         pixelIndex + 1)

\* A mutant of additionalBands: one alpha band, never duplicated bands
AdditionalBands_AlphaOnly(addAlpha, sourceCount, samplesPerPixel) ==
  IF addAlpha THEN 1 ELSE 0

\* additionalBands
AdditionalBands(addAlpha, sourceCount, samplesPerPixel) ==
  IF ~addAlpha THEN 0
  ELSE IF sourceCount = 1 /\ samplesPerPixel = 1 THEN 3
  ELSE IF sourceCount = 2 /\ samplesPerPixel = 1 THEN 2
  ELSE 1

\* IssueReads that reads the first source only
IssueReads_FirstOnly(self, z, pixelBounds) ==
  [sourceIndex \in 1..1 |->
     [image |-> Get(self.sourceImagery_[sourceIndex])[z + 1],
      window |-> pixelBounds,
      settled |-> None]]

\* The loop of loadTile_ that fills requests: one readRasters call per
\* source, on the image of level z, all for the same window
IssueReads(self, z, pixelBounds) ==
  [sourceIndex \in 1..Len(self.sourceImagery_) |->
     [image |-> Get(self.sourceImagery_[sourceIndex])[z + 1],
      window |-> pixelBounds,
      settled |-> None]]

\* loadTile_(z, x, y), to the point where it returns its promise: the
\* locals the then callback closes over, and the reads it has issued
loadTile_(self, z, x, y) ==
  LET size == Get(self.tileGrid).tileSizes[z + 1]
      pixelBounds == <<x * size[1], y * size[2], (x + 1) * size[1], (y + 1) * size[2]>>
      sourceCount == Len(self.sourceImagery_)
      sourceInfo == self.sourceInfo_
      addAlpha == \E sourceIndex \in 1..sourceCount :
                     IsSome(sourceInfo[sourceIndex].nodata)
      samplesPerPixel == Get(self.samplesPerPixel_)
      additionalBands == AdditionalBands(addAlpha, sourceCount, samplesPerPixel)
      bandCount == samplesPerPixel * sourceCount + additionalBands
      pixelCount == size[1] * size[2]
  IN  [z |-> z, x |-> x, y |-> y,
       pixelBounds |-> pixelBounds,
       sourceCount |-> sourceCount,
       sourceInfo |-> sourceInfo,
       addAlpha |-> addAlpha,
       samplesPerPixel |-> samplesPerPixel,
       additionalBands |-> additionalBands,
       bandCount |-> bandCount,
       pixelCount |-> pixelCount,
       dataLength |-> pixelCount * bandCount,
       requests |-> IssueReads(self, z, pixelBounds),
       settled |-> None]

\* The then callback of loadTile_, run to the end of its loops: the data
\* and the writes that were made
Composed(call, sourceSamples) ==
  PixelLoop([call EXCEPT !.requests = <<>>] @@ [sourceSamples |-> sourceSamples],
            [data |-> [index \in 0..(call.dataLength - 1) |-> 0],
             writes |-> {}, transparent |-> FALSE],
            0)

\* The then callback of loadTile_: the data it returns
Compose(call, sourceSamples) == Composed(call, sourceSamples).data

\* What image.readRasters({window}) can resolve to: one array per band, of
\* the array type of the image, with one sample per pixel of the window
ReadResults(image, window) ==
  LET count == (window[3] - window[1]) * (window[4] - window[2])
  IN  { [arrayType |-> image.arrayType, bands |-> bands] :
          bands \in [1..image.samplesPerPixel ->
                      [1..count -> SamplesOf(image.arrayType)]] }

ReadErrors == {Error(<<"Request failed">>)}

----------------------------------------------------------------------------
(* GeoTIFFSource: the state machine *)

\* No OGCMapTile has been constructed
IdleOgc ==
  [state |-> "undefined", projection |-> None, tileMatrixSet |-> "",
   tileMatrixSetLimits |-> None, tileUrlTemplate |-> None, context |-> None,
   tileGrid |-> None, tileUrlFunction |-> None]

\* new GeoTIFFSource({sources})
InitSource(c) ==
  /\ component = c
  /\ \E sources \in SourceLists :
       /\ tiff = constructor(sources).tiff
       /\ requests = constructor(sources).requests
  /\ joined = None
  /\ tileLoad = None
  /\ inFlight = <<>>
  /\ ogc = IdleOgc
  /\ xhr = <<>>
  /\ console = <<>>
  /\ uncaught = <<>>
  /\ urlCall = NoUrlCall
  /\ tile = None
  /\ texture = None
  /\ gl = None

InitTIFF == InitSource("tiff")

InitLoad == InitSource("load")

InitScale == InitSource("scale")

InitUse == InitSource("use")

Resolved(value) == [ok |-> TRUE, value |-> value]

Rejected(error) == [ok |-> FALSE, value |-> error]

\* The settlement of Promise.all(promises): rejected with the reason of
\* the first promise that rejects, resolved with all the values once every
\* promise has resolved, and settled once
PromiseAll(promises, all) ==
  IF IsSome(all) THEN all
  ELSE IF \E i \in 1..Len(promises) :
            IsSome(promises[i].settled) /\ ~Get(promises[i].settled).ok
  THEN LET i == CHOOSE i \in 1..Len(promises) :
                  IsSome(promises[i].settled) /\ ~Get(promises[i].settled).ok
       IN  Some(Rejected(Get(promises[i].settled).value))
  ELSE IF \A i \in 1..Len(promises) : IsSome(promises[i].settled)
  THEN Some(Resolved([i \in 1..Len(promises) |-> Get(promises[i].settled).value]))
  ELSE None

\* Catch that stores the error and leaves the state as it is
Catch_NoState(self, error) == [self EXCEPT !.error_ = Some(error)]

\* A mutant of Catch: the state is set and the error is not kept
Catch_NoError(self, error) == [self EXCEPT !.state = "error"]

\* getError(): null is None
getError(self) == self.error_

\* The catch callback of the constructor
Catch(self, error) == [self EXCEPT !.error_ = Some(error), !.state = "error"]

\* Settle that makes the source READY, with its loader, although configure_
\* threw
Settle_ReadyAnyway(self, all) ==
  IF ~Get(all).ok THEN Catch(self, Get(all).value)
  ELSE LET r == configure_(self, Get(all).value)
       IN  IF IsSome(r.thrown)
           THEN [r.tiff EXCEPT !.error_ = r.thrown, !.state = "ready",
                               !.loader = Some("loadTile_")]
           ELSE r.tiff

\* The then and catch callbacks of the constructor, run when
\* Promise.all(requests) settles
Settle(self, all) ==
  IF ~Get(all).ok THEN Catch(self, Get(all).value)
  ELSE LET r == configure_(self, Get(all).value)
       IN  IF IsSome(r.thrown) THEN Catch(r.tiff, Get(r.thrown)) ELSE r.tiff

\* Request i of the constructor settles; when that settles
\* Promise.all(requests), the callbacks of the constructor run
SourceSettles(i, settlement) ==
  /\ component \in {"tiff", "load", "scale", "use", "concurrent"}
  /\ i \in 1..Len(requests)
  /\ ~IsSome(requests[i].settled)
  /\ LET after == [requests EXCEPT ![i].settled = Some(settlement)]
         all == PromiseAll(after, joined)
     IN  /\ requests' = after
         /\ joined' = all
         /\ tiff' = IF IsSome(all) /\ ~IsSome(joined) THEN Settle(tiff, all)
                    ELSE tiff
  /\ UNCHANGED <<component, ogcVars, tileLoad, inFlight, texVars>>

SourceResolved ==
  \E i \in 1..Len(requests), images \in ImageLists :
    SourceSettles(i, Resolved(images))

SourceRejected ==
  \E i \in 1..Len(requests), error \in FetchErrors :
    SourceSettles(i, Rejected(error))

TileLevels == 0..(MaxLevels - 1)

TilePositions == {<<0, 0>>, <<1, 2>>}

\* The data tile source calls the installed loader, once
LoadTile ==
  /\ component \in {"load", "scale", "use"}
  /\ IsSome(tiff.loader)
  /\ ~IsSome(tileLoad)
  /\ \E z \in TileLevels, position \in TilePositions :
       /\ z < Len(Get(tiff.tileGrid).tileSizes)
       /\ tileLoad' = Some(loadTile_(tiff, z, position[1], position[2]))
  /\ UNCHANGED <<component, ogcVars, tiff, requests, joined, inFlight, texVars>>

\* Read i of the tile load settles; when that settles Promise.all(requests),
\* the promise loadTile_ returned settles: with the composed data, or with
\* the reason of the read that failed
ReadSettles(i, settlement) ==
  /\ component \in {"load", "scale", "use"}
  /\ IsSome(tileLoad)
  /\ i \in 1..Len(Get(tileLoad).requests)
  /\ ~IsSome(Get(tileLoad).requests[i].settled)
  /\ LET call == Get(tileLoad)
         after == [call.requests EXCEPT ![i].settled = Some(settlement)]
         all == PromiseAll(after, None)
     IN  tileLoad' = Some([call EXCEPT
           !.requests = after,
           !.settled =
             IF IsSome(@) \/ ~IsSome(all) THEN @
             ELSE IF Get(all).ok
             THEN Some(Resolved(Compose(call, Get(all).value)))
             ELSE all])
  /\ UNCHANGED <<component, ogcVars, tiff, requests, joined, inFlight, texVars>>

ReadResolved ==
  \E i \in 1..MaxSources :
    /\ IsSome(tileLoad)
    /\ i \in 1..Len(Get(tileLoad).requests)
    /\ ~IsSome(Get(tileLoad).requests[i].settled)
    /\ \E samples \in ReadResults(Get(tileLoad).requests[i].image,
                                  Get(tileLoad).requests[i].window) :
         ReadSettles(i, Resolved(samples))

ReadRejected ==
  \E i \in 1..MaxSources, error \in ReadErrors :
    ReadSettles(i, Rejected(error))

NextTIFF ==
  \/ SourceResolved
  \/ SourceRejected

NextLoad ==
  \/ NextTIFF
  \/ LoadTile
  \/ ReadResolved
  \/ ReadRejected

\* The construction and configuration of the source, over GeoTIFFs of any
\* structure
SpecTIFF == InitTIFF /\ [][NextTIFF]_vars

\* The source over GeoTIFFs of the reference structure, and the loading of
\* one tile
SpecLoad == InitLoad /\ [][NextLoad]_vars

\* One or two sources of the reference structure, of unsigned or signed
\* 8-bit samples that reach the ends of their range, and the loading of one
\* tile
SpecScale == InitScale /\ [][NextLoad]_vars

\* The construction and configuration of the source over GeoTIFFs of any
\* structure, and the use of the loader it installs
SpecUse == InitUse /\ [][NextLoad]_vars

\* Either tile source: an OGCMapTile against a server that answers
\* anything, or a GeoTIFFSource over any GeoTIFFs
InitSources == InitOGC \/ InitTIFF

NextSources == NextOGC \/ NextTIFF

SpecSources == InitSources /\ [][NextSources]_vars

\* Bound on the loadTile_ calls of a source that loads several tiles
MaxInFlight == 2

InitConcurrent == InitSource("concurrent")

\* The tiles loaded concurrently: two 1x1 tiles of level 0, which are read
\* from the same image of every source
ConcurrentTiles == {<<0, 0, 0>>, <<0, 1, 2>>}

\* The data tile source calls the installed loader while other calls are
\* in flight
LoadTileConcurrently ==
  /\ component = "concurrent"
  /\ IsSome(tiff.loader)
  /\ Len(inFlight) < MaxInFlight
  /\ \E t \in ConcurrentTiles :
       inFlight' = Append(inFlight, loadTile_(tiff, t[1], t[2], t[3]))
  /\ UNCHANGED <<component, ogcVars, tiff, requests, joined, tileLoad, texVars>>

\* Read i of a call settles: the requests array and the promise of that
\* call after it
SettleRead(call, i, settlement) ==
  LET after == [call.requests EXCEPT ![i].settled = Some(settlement)]
      all == PromiseAll(after, None)
  IN  [call EXCEPT
         !.requests = after,
         !.settled =
           IF IsSome(@) \/ ~IsSome(all) THEN @
           ELSE IF Get(all).ok
           THEN Some(Resolved(Compose(call, Get(all).value)))
           ELSE all]

\* A mutant of ReadSettlesIn: the calls in flight share one requests array
ReadSettlesIn_SharedRequests(calls, k, i, settlement) ==
  [j \in 1..Len(calls) |->
     IF i \in 1..Len(calls[j].requests)
        /\ ~IsSome(calls[j].requests[i].settled)
     THEN SettleRead(calls[j], i, settlement)
     ELSE calls[j]]

\* Read i of call k settles: requests is a local of the call, and the then
\* callback works on the locals of the call
ReadSettlesIn(calls, k, i, settlement) ==
  [calls EXCEPT ![k] = SettleRead(@, i, settlement)]

ConcurrentReadSettles(k, i, settlement) ==
  /\ component = "concurrent"
  /\ k \in 1..Len(inFlight)
  /\ i \in 1..Len(inFlight[k].requests)
  /\ ~IsSome(inFlight[k].requests[i].settled)
  /\ inFlight' = ReadSettlesIn(inFlight, k, i, settlement)
  /\ UNCHANGED <<component, ogcVars, tiff, requests, joined, tileLoad, texVars>>

ConcurrentReadResolved ==
  \E k \in 1..MaxInFlight, i \in 1..MaxSources :
    /\ k \in 1..Len(inFlight)
    /\ i \in 1..Len(inFlight[k].requests)
    /\ ~IsSome(inFlight[k].requests[i].settled)
    /\ \E samples \in ReadResults(inFlight[k].requests[i].image,
                                  inFlight[k].requests[i].window) :
         ConcurrentReadSettles(k, i, Resolved(samples))

ConcurrentReadRejected ==
  \E k \in 1..MaxInFlight, i \in 1..MaxSources, error \in ReadErrors :
    ConcurrentReadSettles(k, i, Rejected(error))

NextConcurrent ==
  \/ NextTIFF
  \/ LoadTileConcurrently
  \/ ConcurrentReadResolved
  \/ ConcurrentReadRejected

\* One or two single-band sources, and the loading of several tiles whose
\* reads settle in any order
SpecConcurrent == InitConcurrent /\ [][NextConcurrent]_vars

----------------------------------------------------------------------------
(* GeoTIFFSource: what the claims speak of *)

SourceCount == Len(tiff.sourceInfo_)

\* The constructor threw a configuration error and created no request
ThrewAtConstruction ==
  /\ ~tiff.constructed
  /\ tiff.thrown = Some(Error(<<"Accepts 1, 2, or 3 sources">>))
  /\ requests = <<>>

\* The constructor returned, having created one request per source, in the
\* order of the sources
OneFetchPerSource ==
  /\ tiff.constructed
  /\ ~IsSome(tiff.thrown)
  /\ Len(requests) = SourceCount
  /\ \A i \in 1..SourceCount : requests[i].url = tiff.sourceInfo_[i].url

\* C8: constructing a GeoTIFFSource with no source or with four or more
\* sources throws from the constructor before any fetch is issued;
\* constructing it with one, two or three sources does not throw and issues
\* exactly one fetch per source.
C8_SourceCount ==
  /\ (SourceCount = 0 \/ SourceCount >= 4) => ThrewAtConstruction
  /\ SourceCount \in {1, 2, 3} => OneFetchPerSource

\* A source constructed with four or more descriptors
C8_Witness == SourceCount >= 4 /\ ThrewAtConstruction

\* Every request of the constructor resolved, each to a GeoTIFF with at
\* least one image, and every image has n samples per pixel
FetchedWithSamples(n) ==
  /\ tiff.constructed
  /\ \A i \in 1..Len(requests) :
       /\ IsSome(requests[i].settled)
       /\ Get(requests[i].settled).ok
       /\ Get(requests[i].settled).value # <<>>
       /\ \A j \in 1..Len(Get(requests[i].settled).value) :
            Get(requests[i].settled).value[j].samplesPerPixel = n

\* The band counts the policy allows
AllowedSamples == IF SourceCount = 1 THEN {1, 3, 4} ELSE {1}

\* C9: with one source the configuration succeeds only if the samples per
\* pixel are 1, 3 or 4, with two or three sources only if they are 1; a
\* violation is fatal, the source goes to ERROR and never becomes READY.
C9_BandPolicy ==
  /\ tiff.state = "ready" =>
       /\ tiff.samplesPerPixel_ \in {Some(n) : n \in AllowedSamples}
       /\ FetchedWithSamples(Get(tiff.samplesPerPixel_))
  /\ \A n \in (1..MaxSamples) \ AllowedSamples :
       FetchedWithSamples(n) =>
         /\ tiff.state = "error"
         /\ IsSome(tiff.error_)
         /\ ~IsSome(tiff.loader)
         /\ ~IsSome(tiff.tileGrid)

\* A single source of two samples per pixel has been fetched
C9_Witness ==
  /\ SourceCount = 1
  /\ FetchedWithSamples(2)
  /\ tiff.state = "error"

\* loadTile_ has resolved with a buffer, for a source with at least one
\* configured nodata value
LoadedWithNodata ==
  /\ IsSome(tileLoad)
  /\ IsSome(Get(tileLoad).settled)
  /\ Get(Get(tileLoad).settled).ok
  /\ \E s \in 1..SourceCount : IsSome(tiff.sourceInfo_[s].nodata)

\* The raw sample read for pixel p (from 1), band b of source s
RawSample(s, b, p) == Get(Get(tileLoad).requests[s].settled).value.bands[b][p]

\* Every raw sample of pixel p is the nodata value of its source
PixelIsNodata(p) ==
  \A s \in 1..SourceCount, b \in 1..Get(tiff.samplesPerPixel_) :
    tiff.sourceInfo_[s].nodata = Some(RawSample(s, b, p))

\* The buffer loadTile_ resolved with, indexed from 0
Buffer == Get(Get(tileLoad).settled).value

\* The number of pixels of the tile
TilePixels ==
  LET size == Get(tiff.tileGrid).tileSizes[Get(tileLoad).z + 1]
  IN  size[1] * size[2]

\* The number of bands of a pixel of the buffer
BandsPerPixel == Cardinality(DOMAIN Buffer) \div TilePixels

\* The last band of pixel p (from 1) of the buffer
LastBand(p) == Buffer[p * BandsPerPixel - 1]

\* C10: in the buffer of a tile of a source with a configured nodata value,
\* the last band of a pixel is 0 if the raw samples of the pixel are the
\* nodata value and 255 for any other pixel, for one, two and three sources.
C10_Alpha ==
  LoadedWithNodata =>
    \A p \in 1..TilePixels :
      LastBand(p) = IF PixelIsNodata(p) THEN 0 ELSE 255

\* loadTile_ has resolved with a buffer
Loaded ==
  /\ IsSome(tileLoad)
  /\ IsSome(Get(tileLoad).settled)
  /\ Get(Get(tileLoad).settled).ok

\* The bounds in effect for source s: the configured ones, else the range of
\* the sample type of the source
EffectiveMin(s) ==
  IF IsSome(tiff.sourceInfo_[s].min) THEN Get(tiff.sourceInfo_[s].min)
  ELSE IF Get(tileLoad).requests[s].image.arrayType = "Int8Array" THEN -128
  ELSE 0

EffectiveMax(s) ==
  IF IsSome(tiff.sourceInfo_[s].max) THEN Get(tiff.sourceInfo_[s].max)
  ELSE IF Get(tileLoad).requests[s].image.arrayType = "Int8Array" THEN 127
  ELSE 255

\* byte is 255 * (v - min) / (max - min), to the nearest integer, stored by
\* saturation
IsRescaled(byte, v, min, max) ==
  \E k \in {(255 * (v - min)) \div (max - min),
            (255 * (v - min)) \div (max - min) + 1} :
    /\ 2 * Abs(255 * (v - min) - k * (max - min)) <= max - min
    /\ byte = IF k < 0 THEN 0 ELSE IF k > 255 THEN 255 ELSE k

\* The place in the buffer of band b of source s of pixel p (all from 1)
ValueBand(p, s, b) ==
  (p - 1) * BandsPerPixel + (s - 1) * Get(tiff.samplesPerPixel_) + (b - 1)

\* C11: in the buffer of a tile, the byte of every raw sample that is not
\* the nodata value of its source is gain * v + bias with gain = 255 /
\* (max - min) and bias = -min * gain, saturated to 0..255, where min and
\* max are the configured bounds or else the range of the sample type
\* (signed 8-bit -128..127, unsigned 8-bit 0..255); 128 with bounds 0..255
\* gives 128 and 0 with bounds 100..200 gives 0.
C11_Rescale ==
  Loaded =>
    \A p \in 1..TilePixels, s \in 1..SourceCount,
       b \in 1..Get(tiff.samplesPerPixel_) :
      tiff.sourceInfo_[s].nodata # Some(RawSample(s, b, p)) =>
        /\ EffectiveMin(s) < EffectiveMax(s)
        /\ IsRescaled(Buffer[ValueBand(p, s, b)], RawSample(s, b, p),
                      EffectiveMin(s), EffectiveMax(s))
        /\ (RawSample(s, b, p) = 128 /\ EffectiveMin(s) = 0
              /\ EffectiveMax(s) = 255) => Buffer[ValueBand(p, s, b)] = 128
        /\ (RawSample(s, b, p) = 0 /\ EffectiveMin(s) = 100
              /\ EffectiveMax(s) = 200) => Buffer[ValueBand(p, s, b)] = 0

\* Request i of the constructor resolved / rejected
FetchResolved(i) == IsSome(requests[i].settled) /\ Get(requests[i].settled).ok

FetchRejected(i) == IsSome(requests[i].settled) /\ ~Get(requests[i].settled).ok

\* configure_ has run: the source is READY, or holds the images of a source,
\* or holds an error that is not the error of a fetch
ConfigureRan ==
  \/ tiff.state = "ready"
  \/ \E i \in 1..Len(tiff.sourceImagery_) : IsSome(tiff.sourceImagery_[i])
  \/ IsSome(tiff.error_) /\ Get(tiff.error_) \notin FetchErrors

\* C13: configure_ runs only after the fetches of all sources have resolved,
\* and does run then, in whatever order they complete; if a fetch fails
\* configure_ never runs, the source is in ERROR and never READY, and
\* getError() is the error of the fetch that failed first: a later failure
\* does not replace it.
C13_FetchJoin ==
  /\ [](ConfigureRan => \A i \in 1..Len(requests) : FetchResolved(i))
  /\ []((tiff.constructed /\ \A i \in 1..Len(requests) : FetchResolved(i))
          => tiff.state # "loading")
  /\ []((\E i \in 1..Len(requests) : FetchRejected(i)) =>
          /\ ~ConfigureRan
          /\ tiff.state = "error"
          /\ \E i \in 1..Len(requests) :
               FetchRejected(i) /\ tiff.error_ = Some(Get(requests[i].settled).value))
  /\ [][IsSome(tiff.error_) => tiff'.error_ = tiff.error_]_vars

\* The second source failed first, the first source failed later with
\* another error, and the error kept is that of the second source
C13_Witness ==
  /\ Len(requests) >= 2
  /\ FetchRejected(1)
  /\ FetchRejected(2)
  /\ Get(requests[1].settled).value # Get(requests[2].settled).value
  /\ tiff.error_ = Some(Get(requests[2].settled).value)
  /\ tiff.state = "error"

\* The images the fetch of source k resolved with, finest first
Fetched(k) == Get(requests[k].settled).value

\* Every fetch resolved, each with at least one image
AllFetched ==
  /\ tiff.constructed
  /\ \A k \in 1..Len(requests) : FetchResolved(k) /\ Fetched(k) # <<>>

\* The five properties of the structure of source k.  The extent and the
\* origin of a source are those of its first (full resolution) image.
BandCounts(k) == {Fetched(k)[j].samplesPerPixel : j \in 1..Len(Fetched(k))}

SourceExtent(k) == Fetched(k)[1].boundingBox

SourceOrigin(k) == SubSeq(Fetched(k)[1].origin, 1, 2)

SourceResolutions(k) == [j \in 1..Len(Fetched(k)) |-> Fetched(k)[j].resolution]

SourceTileSizes(k) ==
  [j \in 1..Len(Fetched(k)) |->
     <<Fetched(k)[j].tileWidth, Fetched(k)[j].tileHeight>>]

StructureProperties == {"Band count", "Extent", "Origin", "Tile size", "Resolution"}

\* Source k differs from the reference, the first source, in property
DiffersIn(k, property) ==
  CASE property = "Band count" ->
         BandCounts(k) # {Fetched(1)[1].samplesPerPixel}
    [] property = "Extent" -> SourceExtent(k) # SourceExtent(1)
    [] property = "Origin" -> SourceOrigin(k) # SourceOrigin(1)
    [] property = "Tile size" -> SourceTileSizes(k) # SourceTileSizes(1)
    [] property = "Resolution" -> SourceResolutions(k) # SourceResolutions(1)

\* Some image of source k, at any level, differs from the reference in its
\* own extent or origin
OverviewDiffers(k) ==
  \E j \in 1..Len(Fetched(k)) :
    \/ Fetched(k)[j].boundingBox # SourceExtent(1)
    \/ SubSeq(Fetched(k)[j].origin, 1, 2) # SourceOrigin(1)

\* error is the mismatch error of property for source k (index k - 1)
NamesMismatch(error, k, property) ==
  /\ error.name = "Error"
  /\ IF property = "Band count"
     THEN /\ error.message[1] = "Band count mismatch for source "
          /\ error.message[2] = ToString(k - 1)
     ELSE error.message = <<property, " mismatch for source ", ToString(k - 1)>>

\* The source is in ERROR with a mismatch error that names a source and a
\* property in which that source differs
FailedOnMismatch ==
  /\ tiff.state = "error"
  /\ ~IsSome(tiff.tileGrid)
  /\ IsSome(tiff.error_)
  /\ \E k \in 1..Len(requests), property \in StructureProperties :
       DiffersIn(k, property) /\ NamesMismatch(Get(tiff.error_), k, property)

ReadDone(s) ==
  /\ IsSome(Get(tileLoad).requests[s].settled)
  /\ Get(Get(tileLoad).requests[s].settled).ok

ReadFailed(s) ==
  /\ IsSome(Get(tileLoad).requests[s].settled)
  /\ ~Get(Get(tileLoad).requests[s].settled).ok

\* C15: loadTile_ issues the reads of all sources together, one per source
\* and all for the window of the tile, before any of them completes; the
\* buffer is composed once every read has completed, in whatever order, and
\* not before; if a read fails, the tile load fails and no buffer is
\* produced.
C15_ReadJoin ==
  IsSome(tileLoad) =>
    LET reads == Get(tileLoad).requests
    IN  /\ Len(reads) = SourceCount
        /\ \A s \in 1..Len(reads) :
             /\ reads[s].window = Get(tileLoad).pixelBounds
             /\ reads[s].image = Get(tiff.sourceImagery_[s])[Get(tileLoad).z + 1]
        /\ Loaded <=> \A s \in 1..Len(reads) : ReadDone(s)
        /\ (\E s \in 1..Len(reads) : ReadFailed(s)) =>
             /\ IsSome(Get(tileLoad).settled)
             /\ ~Get(Get(tileLoad).settled).ok
        /\ ((\E s \in 1..Len(reads) : ~IsSome(reads[s].settled))
              /\ ~\E s \in 1..Len(reads) : ReadFailed(s)) =>
             ~IsSome(Get(tileLoad).settled)

\* Three reads are out; the last two have completed, the first has not, and
\* there is no buffer yet
C15_Witness ==
  /\ IsSome(tileLoad)
  /\ Len(Get(tileLoad).requests) = 3
  /\ ~IsSome(Get(tileLoad).requests[1].settled)
  /\ ReadDone(2)
  /\ ReadDone(3)
  /\ ~IsSome(Get(tileLoad).settled)

\* configure_ ran and threw: every fetch resolved, and there is an error
ConfigureFailed ==
  /\ tiff.constructed
  /\ \A i \in 1..Len(requests) : FetchResolved(i)
  /\ IsSome(tiff.error_)

\* C17: after a consistency or band count error of the configuration the
\* source is never READY, its tile grid stays unset and no loader is
\* installed, so that no tile is ever loaded through it; tiles are loaded
\* through a READY source only.
C17_Unusable ==
  /\ [](ConfigureFailed =>
          /\ tiff.state # "ready"
          /\ ~IsSome(tiff.tileGrid)
          /\ ~IsSome(tiff.loader)
          /\ ~IsSome(tileLoad))
  /\ [][ConfigureFailed => ConfigureFailed']_vars
  /\ [](IsSome(tileLoad) => tiff.state = "ready" /\ ~IsSome(tiff.error_))

\* A source whose configuration failed on the tile sizes of its second
\* GeoTIFF
C17_Witness ==
  /\ ConfigureFailed
  /\ tiff.state = "error"
  /\ Get(tiff.error_).message = <<"Tile size", " mismatch for source ", "1">>
  /\ ~IsSome(tiff.loader)

----------------------------------------------------------------------------
(* TileTexture: its environment *)

\* Bound on the change notifications one tile dispatches
MaxChanges == 4

\* ol/TileState
TileStates == {"IDLE", "LOADING", "LOADED", "ERROR", "EMPTY"}

\* The classes uploadTile_ tells apart with instanceof, and any other Tile
TileKinds == {"ImageTile", "DataTile", "Tile"}

\* grid.getTileSize(z) as toSize returns it: [width, height]
TileSize == <<2, 1>>

\* The byte lengths of the data of a DataTile: 1, 1.5, 2, 3, 4 and 5 bytes
\* for each of the pixels of TileSize
DataLengths == {2, 3, 4, 6, 8, 10}

\* The tiles a TileTexture is constructed for: byteLength is the length of
\* the data the tile holds once it is loaded
Tiles ==
  { [kind |-> kind, state |-> state, byteLength |-> byteLength,
     listeners |-> <<>>, changes |-> 0] :
      kind \in TileKinds, state \in TileStates, byteLength \in DataLengths }

\* The states a tile moves to when it dispatches a change: loading starts,
\* loading ends, a failed load is retried, or the state stays as it is
NextTileStates(state) ==
  {state} \cup
  CASE state = "IDLE" -> {"LOADING"}
    [] state = "LOADING" -> {"LOADED", "ERROR", "EMPTY"}
    [] state = "ERROR" -> {"LOADING"}
    [] OTHER -> {}

\* EventTarget.addEventListener(type, listener): a listener is kept once
addEventListener(listeners, listener) ==
  IF \E i \in 1..Len(listeners) : listeners[i] = listener
  THEN listeners
  ELSE Append(listeners, listener)

\* EventTarget.removeEventListener(type, listener): nothing happens when
\* the listener is not registered
removeEventListener(listeners, listener) ==
  SelectSeq(listeners, LAMBDA l : l # listener)

\* The WebGL context before anything was created
NewGl == [calls |-> <<>>, buffer |-> "none", texture |-> "none"]

\* gl.texImage2D as the three upload functions call it
TexImage2D(g, kind, format, size) ==
  [g EXCEPT !.calls = Append(@, [kind |-> kind, format |-> format,
                                  size |-> size])]

----------------------------------------------------------------------------
(* TileTexture: the class *)

\* The outcome of an upload: the context after it and the error thrown
Uploaded(g) == [gl |-> g, thrown |-> None]

UploadThrows(g, message) == [gl |-> g, thrown |-> Some(message)]

\* uploadImageTexture(gl, texture, image)
uploadImageTexture(g) == Uploaded(TexImage2D(g, "image", "RGBA", TileSize))

\* A mutant of uploadDataTexture: the bytes per pixel are rounded down
uploadDataTexture_Truncating(g, byteLength, size) ==
  LET bytesPerPixel == byteLength \div (size[1] * size[2])
  IN  IF bytesPerPixel = 1
      THEN Uploaded(TexImage2D(g, "data", "LUMINANCE", size))
      ELSE IF bytesPerPixel = 3
      THEN Uploaded(TexImage2D(g, "data", "RGB", size))
      ELSE IF bytesPerPixel = 4
      THEN Uploaded(TexImage2D(g, "data", "RGBA", size))
      ELSE UploadThrows(g, "Unsupported number of bytes per pixel")

\* uploadDataTexture(gl, texture, data, size): the format follows from
\* data.byteLength / (size[0] * size[1])
uploadDataTexture(g, byteLength, size) ==
  LET pixels == size[1] * size[2]
      whole == byteLength % pixels = 0
      bytesPerPixel == byteLength \div pixels
  IN  IF whole /\ bytesPerPixel = 1
      THEN Uploaded(TexImage2D(g, "data", "LUMINANCE", size))
      ELSE IF whole /\ bytesPerPixel = 3
      THEN Uploaded(TexImage2D(g, "data", "RGB", size))
      ELSE IF whole /\ bytesPerPixel = 4
      THEN Uploaded(TexImage2D(g, "data", "RGBA", size))
      ELSE UploadThrows(g, "Unsupported number of bytes per pixel")

\* uploadBlankTexture(gl, texture): one transparent pixel
uploadBlankTexture(g) == TexImage2D(g, "blank", "RGBA", <<1, 1>>)

\* TileTexture.uploadTile_()
uploadTile_(g, t, size) ==
  IF t.kind = "ImageTile" THEN uploadImageTexture(g)
  ELSE IF t.kind = "DataTile" THEN uploadDataTexture(g, t.byteLength, size)
  ELSE UploadThrows(g, "Unsupported tile type")

\* A TileTexture, its tile and the context: what the methods work on
TextureWorld(t, x, g) == [tile |-> t, texture |-> x, gl |-> g]

\* A mutant of the constructor: the listener is registered for a loaded
\* tile as well
TileTexture_AlwaysListens(t) ==
  LET loaded == t.state = "LOADED"
      created == [NewGl EXCEPT !.buffer = "live", !.texture = "live"]
      up == uploadTile_(created, t, TileSize)
      fields == [constructed |-> TRUE, thrown |-> <<>>, size |-> TileSize,
                 loaded |-> loaded, dispatched |-> 0, disposed |-> FALSE]
  IN  IF loaded
      THEN TextureWorld(
             [t EXCEPT !.listeners =
                addEventListener(@, "handleTileChange_")],
             fields, up.gl)
      ELSE TextureWorld(
             [t EXCEPT !.listeners =
                addEventListener(@, "handleTileChange_")],
             fields, uploadBlankTexture(created))

\* new TileTexture(tile, grid, helper)
TileTexture(t) ==
  LET loaded == t.state = "LOADED"
      created == [NewGl EXCEPT !.buffer = "live", !.texture = "live"]
      up == uploadTile_(created, t, TileSize)
      fields == [constructed |-> TRUE, thrown |-> <<>>, size |-> TileSize,
                 loaded |-> loaded, dispatched |-> 0, disposed |-> FALSE]
  IN  IF loaded
      THEN IF IsSome(up.thrown)
           THEN TextureWorld(t,
                  [fields EXCEPT !.constructed = FALSE,
                                 !.thrown = <<Get(up.thrown)>>],
                  up.gl)
           ELSE TextureWorld(t, fields, up.gl)
      ELSE TextureWorld(
             [t EXCEPT !.listeners =
                addEventListener(@, "handleTileChange_")],
             fields, uploadBlankTexture(created))

\* A mutant of handleTileChange_: the state of the tile is not looked at
handleTileChange__AnyState(w) ==
  LET up == uploadTile_(w.gl, w.tile, w.texture.size)
  IN  IF IsSome(up.thrown)
      THEN [w EXCEPT !.texture.loaded = TRUE,
                     !.texture.thrown = Append(@, Get(up.thrown)),
                     !.gl = up.gl]
      ELSE [w EXCEPT !.texture.loaded = TRUE,
                     !.texture.dispatched = @ + 1,
                     !.gl = up.gl]

\* A mutant of handleTileChange_: the change is dispatched before the
\* upload
handleTileChange__NotifyFirst(w) ==
  IF w.tile.state = "LOADED"
  THEN LET up == uploadTile_(w.gl, w.tile, w.texture.size)
       IN  IF IsSome(up.thrown)
           THEN [w EXCEPT !.texture.loaded = TRUE,
                          !.texture.dispatched = @ + 1,
                          !.texture.thrown = Append(@, Get(up.thrown)),
                          !.gl = up.gl]
           ELSE [w EXCEPT !.texture.loaded = TRUE,
                          !.texture.dispatched = @ + 1,
                          !.gl = up.gl]
  ELSE w

\* TileTexture.handleTileChange_(): an error of the upload leaves the
\* handler after the flag is set and before the change is dispatched
handleTileChange_(w) ==
  IF w.tile.state = "LOADED"
  THEN LET up == uploadTile_(w.gl, w.tile, w.texture.size)
       IN  IF IsSome(up.thrown)
           THEN [w EXCEPT !.texture.loaded = TRUE,
                          !.texture.thrown = Append(@, Get(up.thrown)),
                          !.gl = up.gl]
           ELSE [w EXCEPT !.texture.loaded = TRUE,
                          !.texture.dispatched = @ + 1,
                          !.gl = up.gl]
  ELSE w

\* A mutant of disposeInternal: the listener stays on the tile
disposeInternal_KeepsListener(w) ==
  [w EXCEPT !.gl.buffer = "deleted", !.gl.texture = "deleted"]

\* TileTexture.disposeInternal()
disposeInternal(w) ==
  [w EXCEPT !.gl.buffer = "deleted",
            !.gl.texture = "deleted",
            !.tile.listeners = removeEventListener(@, "handleTileChange_")]

\* Disposable.dispose(): disposeInternal runs on the first call only
dispose(w) ==
  IF w.texture.disposed THEN w
  ELSE disposeInternal([w EXCEPT !.texture.disposed = TRUE])

\* tile.dispatchEvent('change'): each registered listener is called
dispatchChange(w) ==
  IF \E i \in 1..Len(w.tile.listeners) :
        w.tile.listeners[i] = "handleTileChange_"
  THEN handleTileChange_(w)
  ELSE w

----------------------------------------------------------------------------
(* TileTexture: the state machine *)

\* new TileTexture(tile, grid, helper) for any tile
InitTexture ==
  /\ component = "texture"
  /\ \E t \in Tiles :
       /\ tile = TileTexture(t).tile
       /\ texture = TileTexture(t).texture
       /\ gl = TileTexture(t).gl
  /\ ogc = IdleOgc
  /\ xhr = <<>>
  /\ console = <<>>
  /\ uncaught = <<>>
  /\ urlCall = NoUrlCall
  /\ tiff = IdleTiff
  /\ requests = <<>>
  /\ joined = None
  /\ tileLoad = None
  /\ inFlight = <<>>

\* The tile moves to a state (or stays) and dispatches a change
TileChanges ==
  /\ component = "texture"
  /\ tile.changes < MaxChanges
  /\ \E state \in NextTileStates(tile.state) :
       LET w == dispatchChange(TextureWorld(
                  [tile EXCEPT !.state = state, !.changes = @ + 1],
                  texture, gl))
       IN  /\ tile' = w.tile
           /\ texture' = w.texture
           /\ gl' = w.gl
  /\ UNCHANGED <<component, ogcVars, tiffVars>>

\* texture.dispose()
Dispose ==
  /\ component = "texture"
  /\ texture.constructed
  /\ LET w == dispose(TextureWorld(tile, texture, gl))
     IN  /\ tile' = w.tile
         /\ texture' = w.texture
         /\ gl' = w.gl
  /\ UNCHANGED <<component, ogcVars, tiffVars>>

NextTexture == TileChanges \/ Dispose

SpecTexture == InitTexture /\ [][NextTexture]_vars

----------------------------------------------------------------------------
(* TileTexture: the claims *)

\* The uploads of one kind among the calls made on a context
Uploads(g, kinds) ==
  Cardinality({i \in 1..Len(g.calls) : g.calls[i].kind \in kinds})

PlaceholderUploads(g) == Uploads(g, {"blank"})

FullUploads(g) == Uploads(g, {"image", "data"})

\* The tile is one uploadTile_ uploads without an error
Uploadable(t) == ~IsSome(uploadTile_(NewGl, t, TileSize).thrown)

\* The tile has dispatched nothing since the TileTexture was constructed
JustConstructed == component = "texture" /\ tile.changes = 0

\* The only call made so far is the upload of the 1x1 placeholder
OnlyPlaceholder(g) ==
  g.calls = <<[kind |-> "blank", format |-> "RGBA", size |-> <<1, 1>>]>>

\* This step is the change the tile dispatches on becoming LOADED
Completes ==
  /\ component = "texture"
  /\ tile.state # "LOADED"
  /\ tile'.state = "LOADED"
  /\ tile'.changes = tile.changes + 1

\* This step is a change the tile dispatches
Notifies == component = "texture" /\ tile'.changes = tile.changes + 1

\* The step made no upload and dispatched no change from the TileTexture
NothingUploaded ==
  /\ gl'.calls = gl.calls
  /\ texture'.dispatched = texture.dispatched

\* C12 as the specification states it: a TileTexture constructed for a
\* tile that is not loaded uploads the placeholder alone; once the tile
\* completes there is exactly one full upload and one dispatched change,
\* for any tile; a disposed TileTexture does nothing when the tile completes
C12_Original ==
  [][/\ (JustConstructed /\ tile.state # "LOADED" /\ ~texture.disposed)
          => (OnlyPlaceholder(gl) /\ texture.dispatched = 0)
     /\ (Completes /\ ~texture.disposed)
          => /\ PlaceholderUploads(gl') = 1
             /\ FullUploads(gl') = 1
             /\ texture'.dispatched = 1
     /\ (Completes /\ texture.disposed) => NothingUploaded]_vars

\* C12: a TileTexture constructed for a tile that is not loaded uploads
\* the 1x1 placeholder alone; once the tile completes, and its data is of
\* a kind uploadTile_ accepts, there is exactly one full upload next to
\* the one placeholder and exactly one dispatched change; a TileTexture
\* disposed before the tile completes uploads and dispatches nothing
C12_Lifecycle ==
  [][/\ (JustConstructed /\ tile.state # "LOADED" /\ ~texture.disposed)
          => (OnlyPlaceholder(gl) /\ texture.dispatched = 0)
     /\ (Completes /\ ~texture.disposed /\ Uploadable(tile))
          => /\ PlaceholderUploads(gl') = 1
             /\ FullUploads(gl') = 1
             /\ texture'.dispatched = 1
     /\ (Completes /\ ~texture.disposed /\ ~Uploadable(tile))
          => /\ NothingUploaded
             /\ texture'.loaded
             /\ Len(texture'.thrown) = Len(texture.thrown) + 1
     /\ (Completes /\ texture.disposed) => NothingUploaded]_vars

\* The tile completed after construction and its pixels were uploaded
C12_Witness ==
  /\ component = "texture"
  /\ tile.state = "LOADED"
  /\ tile.changes > 0
  /\ ~texture.disposed
  /\ PlaceholderUploads(gl) = 1
  /\ FullUploads(gl) = 1
  /\ texture.dispatched = 1

\* The handler of the TileTexture is registered on the tile
Listening(t) ==
  \E i \in 1..Len(t.listeners) : t.listeners[i] = "handleTileChange_"

\* This step is the disposal of the TileTexture
Disposes ==
  component = "texture" /\ ~texture.disposed /\ texture'.disposed

\* C16: disposing a TileTexture deletes its buffer and its texture and
\* takes its handler off the tile, whether the tile was loaded at
\* construction, has completed since, or never completed; once it is
\* disposed, a change of the tile uploads nothing, leaves the loaded flag
\* as it is and dispatches no change from the TileTexture
C16_Dispose ==
  [][/\ Disposes => /\ gl'.buffer = "deleted"
                    /\ gl'.texture = "deleted"
                    /\ ~Listening(tile')
                    /\ gl'.calls = gl.calls
     /\ (Notifies /\ texture.disposed)
          => /\ NothingUploaded
             /\ texture' = texture
             /\ gl' = gl]_vars

\* A TileTexture disposed while its tile was loading, and the tile has
\* completed since
C16_Witness ==
  /\ component = "texture"
  /\ texture.disposed
  /\ gl.buffer = "deleted"
  /\ gl.texture = "deleted"
  /\ tile.state = "LOADED"
  /\ tile.changes > 0
  /\ ~texture.loaded
  /\ OnlyPlaceholder(gl)

\* C18 as the specification states it: a TileTexture constructed for a
\* LOADED tile, whatever the tile holds, has made exactly one full upload,
\* no placeholder upload and registered no listener, and its loaded flag
\* equals (tile state = LOADED)
C18_Original ==
  JustConstructed =>
    /\ texture.loaded = (tile.state = "LOADED")
    /\ tile.state = "LOADED" =>
         /\ FullUploads(gl) = 1
         /\ PlaceholderUploads(gl) = 0
         /\ ~Listening(tile)

\* C18: the loaded flag set by the constructor equals (tile state =
\* LOADED); for a LOADED tile of a kind uploadTile_ accepts the constructor
\* makes exactly one full upload, no placeholder upload and registers no
\* listener; for any other LOADED tile it throws and uploads nothing
C18_LoadedAtConstruction ==
  JustConstructed =>
    /\ texture.loaded = (tile.state = "LOADED")
    /\ (tile.state = "LOADED" /\ Uploadable(tile)) =>
         /\ texture.constructed
         /\ Len(gl.calls) = 1
         /\ FullUploads(gl) = 1
         /\ PlaceholderUploads(gl) = 0
         /\ ~Listening(tile)
    /\ (tile.state = "LOADED" /\ ~Uploadable(tile)) =>
         /\ ~texture.constructed
         /\ Len(texture.thrown) = 1
         /\ gl.calls = <<>>
         /\ ~Listening(tile)

\* A TileTexture just constructed for a LOADED tile, its pixels uploaded
C18_Witness ==
  /\ JustConstructed
  /\ tile.state = "LOADED"
  /\ texture.constructed
  /\ texture.loaded
  /\ FullUploads(gl) = 1

\* C19: the listener is one-shot: whatever changes the tile dispatches,
\* the TileTexture makes at most one full upload and dispatches at most
\* one change, and a change of the tile that arrives once the TileTexture
\* is loaded uploads nothing and dispatches nothing
C19_OneShot ==
  [][component = "texture" =>
       /\ FullUploads(gl') <= 1
       /\ texture'.dispatched <= 1
       /\ (Notifies /\ texture.loaded) => NothingUploaded]_vars

\* C20: a change of the tile observed with a state other than LOADED
\* leaves the TileTexture as it is: loaded false, no upload, the
\* placeholder alone, no change dispatched.  The flag is set, pixels are
\* uploaded and a change is dispatched only in a step in which the tile
\* dispatches a change with state LOADED, and in this order: a change is
\* dispatched only after an upload, an upload made only after the flag is
\* set
C20_OnlyWhenLoaded ==
  [][component = "texture" =>
       /\ (Notifies /\ Listening(tile) /\ tile'.state # "LOADED")
            => /\ ~texture'.loaded
               /\ texture' = texture
               /\ gl' = gl
               /\ (~texture.disposed => OnlyPlaceholder(gl'))
       /\ (\/ texture'.loaded # texture.loaded
           \/ gl'.calls # gl.calls
           \/ texture'.dispatched # texture.dispatched)
            => (Notifies /\ Listening(tile) /\ tile'.state = "LOADED")
       /\ texture'.dispatched # texture.dispatched
            => FullUploads(gl') = FullUploads(gl) + 1
       /\ gl'.calls # gl.calls => texture'.loaded]_vars

\* The tile has dispatched a change on failing to load, and the
\* TileTexture still shows the placeholder
C20_Witness ==
  /\ component = "texture"
  /\ tile.changes > 0
  /\ tile.state = "ERROR"
  /\ Listening(tile)
  /\ ~texture.loaded
  /\ OnlyPlaceholder(gl)
  /\ texture.dispatched = 0

\* The full uploads made on a context, in order
FullCalls(g) == SelectSeq(g.calls, LAMBDA c : c.kind \in {"image", "data"})

\* The formats the specification gives for 1, 3 and 4 bytes per pixel
FormatOf ==
  [bytes \in {1, 3, 4} |->
     CASE bytes = 1 -> "LUMINANCE" [] bytes = 3 -> "RGB" [] OTHER -> "RGBA"]

\* The upload the specification expects for a tile: None for an error
ExpectedUpload(t) ==
  IF t.kind = "ImageTile"
  THEN Some([kind |-> "image", format |-> "RGBA", size |-> TileSize])
  ELSE IF t.kind = "DataTile"
          /\ \E bytes \in {1, 3, 4} :
               t.byteLength = bytes * TileSize[1] * TileSize[2]
  THEN LET bytes == CHOOSE bytes \in {1, 3, 4} :
                      t.byteLength = bytes * TileSize[1] * TileSize[2]
       IN  Some([kind |-> "data", format |-> FormatOf[bytes],
                 size |-> TileSize])
  ELSE None

\* The error the specification expects for a tile that is not uploaded
ExpectedError(t) ==
  IF t.kind = "DataTile" THEN "Unsupported number of bytes per pixel"
  ELSE "Unsupported tile type"

\* C21: once uploadTile_ has run (the loaded flag is set), an image tile
\* was uploaded as an image; a data tile of 1, 3 or 4 bytes per pixel as
\* LUMINANCE, RGB or RGBA data of the tile size; a data tile of any other
\* byte width (2, 5, 1.5) raised the unsupported-bytes error and a tile of
\* neither kind the unsupported-type error, with no full upload made
C21_UploadDispatch ==
  (component = "texture" /\ texture.loaded) =>
    IF IsSome(ExpectedUpload(tile))
    THEN /\ Len(FullCalls(gl)) >= 1
         /\ \A i \in 1..Len(FullCalls(gl)) :
              FullCalls(gl)[i] = Get(ExpectedUpload(tile))
         /\ texture.thrown = <<>>
    ELSE /\ FullCalls(gl) = <<>>
         /\ Len(texture.thrown) >= 1
         /\ \A i \in 1..Len(texture.thrown) :
              texture.thrown[i] = ExpectedError(tile)

\* A data tile of 1.5 bytes per pixel completed: the upload raised the
\* error and the placeholder is the only upload
C21_Witness ==
  /\ component = "texture"
  /\ texture.loaded
  /\ tile.kind = "DataTile"
  /\ tile.byteLength = 3
  /\ texture.thrown = <<"Unsupported number of bytes per pixel">>
  /\ OnlyPlaceholder(gl)

----------------------------------------------------------------------------
(* GeoTIFFSource: the claims on the layout of the buffer *)

\* The additional bands the specification gives for a source list
PaddingBands ==
  IF \A s \in 1..SourceCount : ~IsSome(tiff.sourceInfo_[s].nodata) THEN 0
  ELSE IF SourceCount = 1 /\ Get(tiff.samplesPerPixel_) = 1 THEN 3
  ELSE IF SourceCount = 2 /\ Get(tiff.samplesPerPixel_) = 1 THEN 2
  ELSE 1

\* The tile size of the grid at the level of the tile load
LoadTileSize == Get(tiff.tileGrid).tileSizes[Get(tileLoad).z + 1]

\* The pixel window of the tile of the tile load
PixelWindow ==
  LET col == Get(tileLoad).x
      row == Get(tileLoad).y
      w == LoadTileSize[1]
      h == LoadTileSize[2]
  IN  <<col * w, row * h, (col + 1) * w, (row + 1) * h>>

\* C22: the buffer loadTile_ resolves with has tileWidth * tileHeight *
\* bandCount elements, bandCount being sourcesCount * samplesPerPixel plus
\* the additional bands (0 without nodata, else 3 for one single-band
\* source, 2 for two single-band sources, 1 otherwise), and every read is
\* issued for the window [col*w, row*h, (col+1)*w, (row+1)*h]
C22_BandLayout ==
  (component = "load" /\ IsSome(tileLoad)) =>
    /\ \A s \in 1..Len(Get(tileLoad).requests) :
         Get(tileLoad).requests[s].window = PixelWindow
    /\ Get(tileLoad).bandCount
         = SourceCount * Get(tiff.samplesPerPixel_) + PaddingBands
    /\ Loaded =>
         /\ DOMAIN Buffer =
              0..(LoadTileSize[1] * LoadTileSize[2]
                    * (SourceCount * Get(tiff.samplesPerPixel_) + PaddingBands)
                  - 1)

\* A tile of two single-band sources with nodata, away from the origin of
\* the grid, at the level of 2x1 tiles: 2 pixels of 2 + 2 bands
C22_Witness ==
  /\ component = "load"
  /\ Loaded
  /\ SourceCount = 2
  /\ PaddingBands = 2
  /\ Get(tileLoad).x = 1
  /\ Get(tileLoad).y = 2
  /\ LoadTileSize = <<2, 1>>
  /\ Cardinality(DOMAIN Buffer) = 8

\* The images kept for source s, by level
Imagery(s) == Get(tiff.sourceImagery_[s])

\* The image at index z (from 1) of source s is the one the grid has its
\* resolution and tile size of level z from
MatchesLevel(s, z) ==
  /\ Imagery(s)[z].resolution = Get(tiff.tileGrid).resolutions[z]
  /\ <<Imagery(s)[z].tileWidth, Imagery(s)[z].tileHeight>>
       = Get(tiff.tileGrid).tileSizes[z]

\* C23: once configuration has succeeded, every source keeps one image
\* per level of the grid, the image at index z being the one whose
\* resolution and tile size the grid has at level z, coarsest first; and
\* a tile load at level z reads, for every source, from that image
C23_LevelOrder ==
  (component = "use" /\ tiff.state = "ready") =>
    /\ \A s \in 1..SourceCount :
         /\ Len(Imagery(s)) = Len(Get(tiff.tileGrid).resolutions)
         /\ \A z \in 1..Len(Imagery(s)) : MatchesLevel(s, z)
         /\ \A z \in 1..(Len(Imagery(s)) - 1) :
              Imagery(s)[z].resolution > Imagery(s)[z + 1].resolution
    /\ IsSome(tileLoad) =>
         \A s \in 1..SourceCount :
           /\ Get(tileLoad).requests[s].image
                = Imagery(s)[Get(tileLoad).z + 1]
           /\ MatchesLevel(s, Get(tileLoad).z + 1)

\* Two sources of two levels are configured and a tile of the finest
\* level, index 1, is being read from the images of resolution 1
C23_Witness ==
  /\ component = "use"
  /\ tiff.state = "ready"
  /\ SourceCount = 2
  /\ IsSome(tileLoad)
  /\ Get(tileLoad).z = 1
  /\ Get(tiff.tileGrid).resolutions = <<2, 1>>
  /\ \A s \in 1..2 : Get(tileLoad).requests[s].image.resolution = 1

----------------------------------------------------------------------------
(* OGCMapTile: the claims on the projection of the grid *)

\* Request i is the matrix-set request and was answered with a definition
\* (a JSON object)
DefinitionReceived(i) ==
  /\ component = "ogc"
  /\ i \in 1..Len(xhr)
  /\ IsTileMatrixSetRequest(i)
  /\ ParsedJSON(i)
  /\ IsObject(Body(i))

\* The supportedCRS of the definition names a registered projection
RecognizedCRS(i) ==
  /\ "supportedCRS" \in DOMAIN Body(i)
  /\ IsSome(Body(i).supportedCRS)
  /\ Get(Body(i).supportedCRS) \in DOMAIN ProjectionRegistry

\* The grid is the one the matrices of definition i give under projection:
\* origins in its axis order, resolutions in its units
GridBuiltWith(i, projection) ==
  /\ ogc.state = "ready"
  /\ IsSome(ogc.tileGrid)
  /\ LET matrices == Body(i).tileMatrix
         grid == Get(ogc.tileGrid)
     IN  /\ Len(grid.origins) = Len(matrices)
         /\ Len(grid.resolutions) = Len(matrices)
         /\ \A k \in 1..Len(matrices) :
              /\ grid.origins[k] = IF EastNorth(projection)
                                   THEN matrices[k].topLeftCorner
                                   ELSE Swapped(matrices[k].topLeftCorner)
              /\ RatMul(grid.resolutions[k], projection.metersPerUnit)
                   = Rat(matrices[k].scaleDenominator * 7, 25000)

\* C24: on a matrix-set definition, a resolver that was given a projection
\* builds the grid with that projection whatever supportedCRS says (an
\* unrecognized or missing supportedCRS is then no error); a resolver that
\* was given none builds it with the projection supportedCRS names, and
\* when supportedCRS is not recognized it is in ERROR with no tile grid
C24_ProjectionSource ==
  \A i \in 1..Len(xhr) :
    DefinitionReceived(i) =>
      IF IsSome(ogc.projection)
      THEN "tileMatrix" \in DOMAIN Body(i)
             => GridBuiltWith(i, Get(ogc.projection))
      ELSE IF RecognizedCRS(i)
      THEN "tileMatrix" \in DOMAIN Body(i)
             => GridBuiltWith(i, ProjectionRegistry[Get(Body(i).supportedCRS)])
      ELSE ogc.state = "error" /\ ~IsSome(ogc.tileGrid)

\* A resolver given a projection with axes (north, east) received a
\* definition whose supportedCRS is not registered, and is READY with
\* swapped origins
C24_Witness ==
  \E i \in 1..Len(xhr) :
    /\ DefinitionReceived(i)
    /\ IsSome(ogc.projection)
    /\ ~EastNorth(Get(ogc.projection))
    /\ ~RecognizedCRS(i)
    /\ "tileMatrix" \in DOMAIN Body(i)
    /\ Len(Body(i).tileMatrix) > 0
    /\ GridBuiltWith(i, Get(ogc.projection))

----------------------------------------------------------------------------
(* GeoTIFFSource: the claims on concurrent tile loads *)

\* The samples the reads of a call resolved with, by source
OwnSamples(call) ==
  [s \in 1..Len(call.requests) |-> Get(call.requests[s].settled).value]

\* The buffer source t produces for the tile of the call when the tile is
\* loaded alone and its reads resolve with the samples of the call
BufferAlone(t, call) ==
  Compose(loadTile_(t, call.z, call.x, call.y), OwnSamples(call))

\* The promise of the call, if it has resolved, holds the buffer the tile
\* gives when loaded alone
AsLoadedAlone(t, call) ==
  (IsSome(call.settled) /\ Get(call.settled).ok) =>
    /\ \A s \in 1..Len(call.requests) :
         IsSome(call.requests[s].settled) /\ Get(call.requests[s].settled).ok
    /\ Get(call.settled).value = BufferAlone(t, call)

----------------------------------------------------------------------------
(* GeoTIFFSource and TileTexture: the claims on the upload of a buffer *)

\* C26: the buffer loadTile_ resolves with, for any source list the source
\* accepts, has 1, 3 or 4 bytes per pixel of the tile, and uploadDataTexture
\* uploads it for the tile size of its level without an error
C26_BufferUploadable ==
  (component = "load" /\ Loaded) =>
    /\ Cardinality(DOMAIN Buffer) \in {k * TilePixels : k \in {1, 3, 4}}
    /\ ~IsSome(uploadDataTexture(NewGl, Cardinality(DOMAIN Buffer),
                                 LoadTileSize).thrown)

----------------------------------------------------------------------------
(* GeoTIFFSource: the claims on the writes of the compositing pass *)

\* The writes the then callback made for the tile load: pairs of the pixel
\* being processed and the index written
LoadWrites == Composed(Get(tileLoad), OwnSamples(Get(tileLoad))).writes

\* C27: every write the compositing pass makes while it processes pixel p
\* goes to an index of the bands of p, from p * bandCount up to but not
\* including (p + 1) * bandCount
C27_WritesInPixel ==
  (component = "load" /\ Loaded) =>
    \A w \in LoadWrites :
      /\ w[2] >= w[1] * Get(tileLoad).bandCount
      /\ w[2] < (w[1] + 1) * Get(tileLoad).bandCount

----------------------------------------------------------------------------
(* OGCMapTile and GeoTIFFSource: the claims on the states of a source *)

\* The state, the tile grid and the tile URL function or loader of the
\* tile source of the behaviour
SourceState == IF component = "ogc" THEN ogc.state ELSE tiff.state

SourceGrid == IF component = "ogc" THEN ogc.tileGrid ELSE tiff.tileGrid

SourceFunction == IF component = "ogc" THEN ogc.tileUrlFunction ELSE tiff.loader

\* C28: in both tile sources a READY source has its tile grid and its
\* tile URL function (OGCMapTile) or loader (GeoTIFFSource), and a
\* LOADING or ERROR source has no tile grid
C28_ReadyHasGrid ==
  component \in {"ogc", "tiff"} =>
    /\ SourceState = "ready" => (IsSome(SourceGrid) /\ IsSome(SourceFunction))
    /\ SourceState \in {"loading", "error"} => ~IsSome(SourceGrid)
    /\ SourceState \in {"loading", "error", "ready"}

\* A GeoTIFFSource is READY with a grid of two levels and its loader
C28_Witness ==
  /\ component = "tiff"
  /\ tiff.state = "ready"
  /\ IsSome(tiff.tileGrid)
  /\ Len(Get(tiff.tileGrid).resolutions) = 2
  /\ tiff.loader = Some("loadTile_")

\* C29: getError() of a constructed GeoTIFFSource is non-null exactly
\* when the state is ERROR (null in LOADING and in READY), and once the
\* state is ERROR neither the state nor the error changes, whatever
\* fetches settle afterwards
C29_ErrorIffState ==
  /\ []((component = "tiff" /\ tiff.constructed) =>
          /\ IsSome(getError(tiff)) <=> tiff.state = "error"
          /\ tiff.state \in {"loading", "ready", "error"})
  /\ [][(component = "tiff" /\ tiff.state = "error") =>
          /\ tiff'.state = "error"
          /\ getError(tiff') = getError(tiff)]_vars

\* The source is in ERROR with the reason of the first fetch that failed,
\* and a later fetch has failed for another reason
C29_Witness ==
  /\ component = "tiff"
  /\ tiff.state = "error"
  /\ IsSome(getError(tiff))
  /\ \E i, j \in 1..Len(requests) :
       /\ FetchRejected(i)
       /\ FetchRejected(j)
       /\ Get(requests[i].settled).value = Get(getError(tiff))
       /\ Get(requests[j].settled).value # Get(getError(tiff))

----------------------------------------------------------------------------
(* TileTexture: the claims on the loaded flag *)

\* C30: the loaded flag of a TileTexture is true only if the pixels of
\* its tile were uploaded to its texture; after an upload that raised an
\* error in handleTileChange_ the flag is not true over the placeholder
C30_LoadedMeansUploaded ==
  (component = "texture" /\ texture.constructed /\ texture.loaded) =>
    /\ FullUploads(gl) >= 1
    /\ ~OnlyPlaceholder(gl)

====
